---- MODULE Spec2Model ----
(***************************************************************************)
(* A model of the per-shard storage slice (DbSlice), of the change-callback *)
(* registry and of the point-in-time snapshot producer (SliceSnapshot).     *)
(*                                                                          *)
(* The prime table is modelled per database as one segment of NumBuckets    *)
(* regular buckets followed by one stash bucket, each with SlotNum slots    *)
(* and a version.  A key lives in its home bucket or, on collision, in the  *)
(* stash bucket.  Segment growth is outside the bounds of the model: an     *)
(* insertion that would have to split the segment is not enabled.           *)
(*                                                                          *)
(* Tables 0..NumDbs-1 are the tables of db_arr_; table NumDbs is the table  *)
(* that a running FlushSlotsFb keeps alive after FlushDbIndexes replaced it.*)
(*                                                                          *)
(* An operation is a chain of operators on the state S, a record of the     *)
(* variables the operation can change; the steps of one function of the     *)
(* source are operators that carry the function's name as a prefix.         *)
(***************************************************************************)
EXTENDS Integers, Sequences, FiniteSets, TLC

\* ---------------------------------------------------------------- bounds
NumKeys == 3
NumDbs == 2
NumVals == 2
NumBuckets == 1
SlotNum == 1
MaxTime == 1
MaxVersion == 4
NumSnaps == 2
MaxEvents == 2

Keys == 1..NumKeys
Dbs == 0..(NumDbs - 1)
Detached == NumDbs
Tables == 0..NumDbs
Vals == 1..NumVals
Buckets == 0..NumBuckets
StashBucket == NumBuckets
Slots == 1..SlotNum
Times == 0..MaxTime
Snaps == 1..NumSnaps

\* ---------------------------------------------------------------- keys and values
\* Keys are the strings "", then strings of 12, 24, ... bytes; values are strings of
\* 0 (the empty PrimeValue of a fresh entry), 8 and 40 bytes ...
KeyLen(k) == (k - 1) * 12
ValLen(v) == IF v = 0 THEN 0 ELSE 8 + (v - 1) * 32

\* CompactObj keeps short strings inline: they use no heap.
KeyMallocUsed(k) == IF KeyLen(k) <= 16 THEN 0 ELSE KeyLen(k)
ValMallocUsed(v) == IF ValLen(v) <= 16 THEN 0 ELSE ValLen(v)

\* Home bucket of a key (the fingerprint selects a regular bucket).
Home(k) == k % NumBuckets

NoKey == 0
EmptySlot == [key |-> NoKey, val |-> 0, expire |-> FALSE, sticky |-> FALSE]
NewEntry(k) == [key |-> k, val |-> 0, expire |-> FALSE, sticky |-> FALSE]
NoExpire == -1

EmptyBucket == [s \in Slots |-> EmptySlot]
EmptyPrime == [b \in Buckets |-> EmptyBucket]
EmptyExpire == [k \in Keys |-> NoExpire]
NoVersions == [b \in Buckets |-> 0]

\* ---------------------------------------------------------------- state
VARIABLES
  prime,          \* table -> bucket -> slot -> entry            (DbTable::prime)
  bver,           \* table -> bucket -> version                  (bucket version)
  expire,         \* table -> key -> relative deadline | NoExpire (DbTable::expire)
  trans_locks,    \* db -> set of locked keys                 (DbTable::trans_locks)
  version_,       \* DbSlice::version_ (next_version)
  change_cb_,     \* sequence of [ver, snap]                  (DbSlice::change_cb_)
  memory_budget_, \* DbSlice::memory_budget_
  entries_count_, \* DbSlice::entries_count_ (a size_t: below 0 stands for a wrapped value)
  events_,        \* DbSlice::events_ (the counters the model follows)
  cache_mode_,    \* DbSlice::cache_mode_
  is_replica,     \* EngineShard::IsReplica()
  loading,        \* ServerState gstate() == LOADING
  expire_allowed_,\* DbSlice::expire_allowed_
  shard_lock,     \* TRUE when the shard's global intent lock is taken
  expire_cursor,  \* db -> position of DbTable::expire_cursor
  now,            \* DbContext::time_now_ms of the next operation
  snap,           \* snapshot -> SliceSnapshot state
  flush_slots,    \* the FlushSlotsFb fiber
  obj_memory_usage, \* table -> DbTableStats::obj_memory_usage
  fetched_items_, \* DbSlice::fetched_items_: set of <<key hash, db>>
  rec_id_,        \* SliceSnapshot::rec_id_: the id of the next flush
  last_pushed_id_,\* SliceSnapshot::last_pushed_id_
  serializer_,    \* the items written to serializer_ and not yet flushed
  consumer_,      \* the chunks handed to consumer_->ConsumeData, in their order
  flush_fiber,    \* fiber -> its place in FlushSerialized, its id and its sfile
  journal_buf,    \* the journal's ring buffer: [first, lsn), lsn the next LSN to create
  incremental,    \* the incremental snapshot: its fiber, its lsn, what it wrote
  cs_heap,        \* the ChannelStores, ChannelMaps and SubscribeMaps ever allocated
  cs_freed,       \* the addresses of the deleted ones
  most_recent,    \* control_block.most_recent
  update_mu,      \* control_block.update_mu: 0 or the updater that holds it
  tl_store,       \* thread -> the ChannelStore of its ServerState
  updater,        \* connection -> its ChannelStoreUpdater
  publisher,      \* thread -> its call of SendMessages
  subscribe_info, \* connection -> the channels and patterns it holds
  conn_open,      \* connection -> it has not closed
  shard_db,       \* shard -> key -> value, 0 for none (the prime table of the shard)
  shard_budget,   \* shard -> memory_budget_ of its DbSlice
  shard_journal,  \* shard -> the entries recorded in its journal
  mset_tx,        \* the MSET transaction: its arguments, its hop, its status
  updaters,       \* AutoUpdater object -> whether it is in scope, and its fields_
  upd_table,      \* the table the updaters work on: heap sizes, stats, watchers, tracking
  watched_dirty,  \* connection -> ExecInfo::watched_dirty
  upd_hist,       \* history of the acquisitions: how often each was released
  expired_keys_events_,           \* table -> DbTable::expired_keys_events_
  expired_keys_events_recording_, \* DbSlice::expired_keys_events_recording_
  keyevent_sent,  \* history: the calls of SendMessages by DeleteExpiredStep
  head_,          \* AsyncDeleter::head_: the nodes [ds, cursor], the first one first
  idle_tasks,     \* the registrations of IdleCb with the proactor
  dense_sets,     \* set -> whether it is allocated, its buckets, how many are cleared, its frees
  deleting,      \* TRUE while dense sets are still deleted
  delayed_entries_, \* SliceSnapshot::delayed_entries_: the entries, the first enqueued first
  serialized_len, \* serializer_->SerializedLen(): the bytes buffered and not flushed
  push_fiber,     \* fiber -> its call of PushSerialized
  saved,          \* history: the delayed entries handed to SaveEntry
  next_entry,    \* history: the number of the next delayed entry
  serialization_latch_, \* DbSlice::serialization_latch_: the counter of the latch
  latch_fiber,   \* fiber -> its dispatch, its bucket serialization or its UnregisterOnChange
  obj_type,      \* CompactObj::ObjType of the value of each key of each database
  incr_value,     \* the value stored under the key of the INCRBY commands
  incr_reply,    \* the last INCRBY or DECRBY command and its reply
  set_members,    \* the members of the StringSet and their expiry times
  set_time,       \* time_now() of the StringSet, in seconds
  legacy_saddex_keepttl, \* FLAGS_legacy_saddex_keepttl
  update_ttl,     \* the thread_local update_ttl of AddBatch, unset before the first call
  set_reply      \* the last call on the StringSet and what it returned

vars == <<prime, bver, expire, trans_locks, version_, change_cb_, memory_budget_,
          entries_count_, events_, cache_mode_, is_replica, loading, expire_allowed_,
          shard_lock, expire_cursor, now, snap, flush_slots, obj_memory_usage,
          fetched_items_, rec_id_, last_pushed_id_, serializer_, consumer_, flush_fiber,
          journal_buf, incremental, cs_heap, cs_freed, most_recent, update_mu, tl_store,
          updater, publisher, subscribe_info, conn_open, shard_db, shard_budget,
          shard_journal, mset_tx, updaters, upd_table, watched_dirty, upd_hist,
          expired_keys_events_, expired_keys_events_recording_, keyevent_sent,
          head_, idle_tasks, dense_sets, deleting,
          delayed_entries_, serialized_len, push_fiber, saved, next_entry,
          serialization_latch_, latch_fiber,
          obj_type,
          incr_value, incr_reply,
          set_members, set_time, legacy_saddex_keepttl, update_ttl, set_reply>>

\* the variables of the shard's DbSlice and of the snapshots' traversal
slice_vars == <<prime, bver, expire, trans_locks, version_, change_cb_, memory_budget_,
                entries_count_, events_, cache_mode_, is_replica, loading, expire_allowed_,
                shard_lock, expire_cursor, now, snap, flush_slots, obj_memory_usage,
                fetched_items_, expired_keys_events_, expired_keys_events_recording_,
                keyevent_sent>>

\* the variables of the flushes of one SliceSnapshot
flush_vars == <<rec_id_, last_pushed_id_, serializer_, consumer_, flush_fiber>>

\* the variables of the incremental snapshot and of the journal it replays
incr_vars == <<journal_buf, incremental>>

\* what an operation of the DbSlice, one of FlushSerialized and one of the
\* incremental snapshot leave alone
\* the variables of the channel store
chan_vars == <<cs_heap, cs_freed, most_recent, update_mu, tl_store, updater, publisher,
               subscribe_info, conn_open>>

\* the variables of the shards an MSET spans
mset_vars == <<shard_db, shard_budget, shard_journal, mset_tx>>

\* the variables of the scoped updaters
upd_vars == <<updaters, upd_table, watched_dirty, upd_hist>>

\* the variables of the keyspace events
event_vars == <<expired_keys_events_, expired_keys_events_recording_, keyevent_sent>>

\* the variables of the asynchronous deleter of one thread
del_vars == <<head_, idle_tasks, dense_sets, deleting>>

\* the variables of the delayed entries of one snapshot
push_vars == <<delayed_entries_, serialized_len, push_fiber, saved, next_entry>>

\* the variables of the serialization latch and of the fibers that hold or await it
latch_vars == <<serialization_latch_, latch_fiber>>

\* the type of the value stored under each key
type_vars == <<obj_type>>

\* the value of the key of INCRBY and the last reply
num_vars == <<incr_value, incr_reply>>

\* one StringSet, the flag and the clock it reads
sset_vars == <<set_members, set_time, legacy_saddex_keepttl, update_ttl, set_reply>>

\* what no operation of the DbSlice touches
rest_vars == <<flush_vars, incr_vars, chan_vars, mset_vars, upd_vars, del_vars, push_vars, latch_vars, type_vars, num_vars, sset_vars>>
other_vars == <<rest_vars, event_vars>>
not_flush_vars == <<slice_vars, incr_vars, chan_vars, mset_vars, upd_vars, del_vars, push_vars, latch_vars, type_vars, num_vars, sset_vars>>
not_incr_vars == <<slice_vars, flush_vars, chan_vars, mset_vars, upd_vars, del_vars, push_vars, latch_vars, type_vars, num_vars, sset_vars>>
not_chan_vars == <<slice_vars, flush_vars, incr_vars, mset_vars, upd_vars, del_vars, push_vars, latch_vars, type_vars, num_vars, sset_vars>>
not_mset_vars == <<slice_vars, flush_vars, incr_vars, chan_vars, upd_vars, del_vars, push_vars, latch_vars, type_vars, num_vars, sset_vars>>
not_upd_vars == <<slice_vars, flush_vars, incr_vars, chan_vars, mset_vars, del_vars, push_vars, latch_vars, type_vars, num_vars, sset_vars>>
not_del_vars == <<slice_vars, flush_vars, incr_vars, chan_vars, mset_vars, upd_vars, push_vars, latch_vars, type_vars, num_vars, sset_vars>>
not_push_vars == <<slice_vars, flush_vars, incr_vars, chan_vars, mset_vars, upd_vars, del_vars, latch_vars, type_vars, num_vars, sset_vars>>
not_latch_vars == <<slice_vars, flush_vars, incr_vars, chan_vars, mset_vars, upd_vars, del_vars, push_vars, type_vars, num_vars, sset_vars>>
not_type_rest_vars == <<flush_vars, incr_vars, chan_vars, mset_vars, upd_vars, del_vars, push_vars, latch_vars, num_vars, sset_vars>>
not_type_vars == <<slice_vars, flush_vars, incr_vars, chan_vars, mset_vars, upd_vars, del_vars, push_vars, latch_vars, num_vars, sset_vars>>
not_num_vars == <<slice_vars, flush_vars, incr_vars, chan_vars, mset_vars, upd_vars, del_vars, push_vars, latch_vars, type_vars, sset_vars>>
not_sset_vars == <<slice_vars, flush_vars, incr_vars, chan_vars, mset_vars, upd_vars, del_vars, push_vars, latch_vars, type_vars, num_vars>>
\* what a registration and an unregistration leave alone
not_registry_vars == <<prime, bver, expire, trans_locks, memory_budget_, entries_count_, events_,
                       cache_mode_, is_replica, loading, expire_allowed_, shard_lock,
                       expire_cursor, now, snap, flush_slots, obj_memory_usage, fetched_items_,
                       event_vars, flush_vars, incr_vars, chan_vars, mset_vars, upd_vars, del_vars, push_vars,
                       type_vars, num_vars, sset_vars>>

\* AutoUpdater objects, the keys they are taken on, and the acquisitions
NumUpdaters == 2
NumUpdKeys == 2
MaxAcquired == 2
UpdaterIds == 1..NumUpdaters
UpdKeys == 1..NumUpdKeys
Acquisitions == 1..MaxAcquired

\* shards, and the keys, the pairs and the commands of MSET
NumShards == 2
NumMSetKeys == 3
MaxPairs == 3
MaxMSets == 2
Shards == 0..(NumShards - 1)
MSetKeys == 1..NumMSetKeys

\* connections, threads, and the names of channels and patterns
NumConns == 2
NumThreads == 2
MaxObjects == 9
MaxPublish == 1
Conns == 1..NumConns
\* the updater of UnsubscribeAfterClusterSlotMigration, beside those of the connections
MigrationUpdater == NumConns + 1
Updaters == 1..MigrationUpdater
Threads == 0..(NumThreads - 1)
ThreadOf(c) == (NumConns - c) % NumThreads
ChannelNames == {<<"a">>, <<"a", "b">>}
\* what a pointer read through an end iterator may hold: no object, or one
Addresses == 0..MaxObjects
PatternNames == {<<"a", "*">>, <<"?">>}

\* ---------------------------------------------------------------- the state as a value
\* tr is the trace of the running operation: the entries it evicted, its
\* events in their order, the versions it handed out, whether an iterator
\* of one table was used on another, the AutoUpdater the operation holds, and
\* whether it has to wait for a mutex that another fiber holds.
NoUpdater == [live |-> FALSE, d |-> 0, k |-> 0, orig_heap_size |-> 0]
NoTrace == [evicted |-> {}, log |-> <<>>, handed |-> <<>>, foreign |-> FALSE, upd |-> NoUpdater,
            blocked |-> FALSE]

\* An event of the trace: a callback call ("cb", v the callback's version), a
\* bucket serialized ("ser", v the snapshot's version), a new entry put into a
\* bucket ("mut", v the key), an entry erased ("del", v the key) and a version
\* assigned to a bucket ("ver").
Ev(t, d, b, v) == [t |-> t, d |-> d, b |-> b, v |-> v]
Log(S, e) == [S EXCEPT !.tr.log = Append(@, e)]

Cur == [prime |-> prime, bver |-> bver, expire |-> expire, version |-> version_,
        cbs |-> change_cb_, budget |-> memory_budget_, entries |-> entries_count_,
        events |-> events_, cursor |-> expire_cursor, snap |-> snap, fs |-> flush_slots,
        obj |-> obj_memory_usage, fetched |-> fetched_items_,
        expired_keys_events |-> expired_keys_events_, sent |-> keyevent_sent, tr |-> NoTrace]

\* the result of an operation: the state, the status and is_new
Res(S, status) == [S |-> S, status |-> status, is_new |-> FALSE]
ResNew(S, status) == [S |-> S, status |-> status, is_new |-> TRUE]

\* ---------------------------------------------------------------- prime table helpers
Occupied(e) == e.key # NoKey
Loc(P, k) == {l \in Buckets \X Slots : P[l[1]][l[2]].key = k}
Has(P, k) == \E b \in Buckets, s \in Slots : P[b][s].key = k
LocOf(P, k) == CHOOSE l \in Buckets \X Slots : P[l[1]][l[2]].key = k
BucketOf(P, k) == CHOOSE b \in Buckets : \E s \in Slots : P[b][s].key = k
EntryAt(P, l) == P[l[1]][l[2]]
EntryOf(P, k) == EntryAt(P, LocOf(P, k))
KeysOf(P) == {k \in Keys : Has(P, k)}
TableSize(P) == Cardinality({l \in Buckets \X Slots : Occupied(P[l[1]][l[2]])})
TableCapacity == (NumBuckets + 1) * SlotNum
FreeSlots(B) == {s \in Slots : ~Occupied(B[s])}
BucketFull(B) == \A s \in Slots : Occupied(B[s])
FirstFree(B) == CHOOSE s \in Slots : ~Occupied(B[s]) /\ \A t \in 1..(s - 1) : Occupied(B[t])

\* the table with the slot at l set to e
PutAt(P, l, e) == [P EXCEPT ![l[1]][l[2]] = e]
\* PrimeTable::Erase
Erase(P, k) == PutAt(P, LocOf(P, k), EmptySlot)
\* the entry of key k replaced by e
Put(P, k, e) == PutAt(P, LocOf(P, k), e)
\* PrimeTable::ShiftRight: every slot moves one to the right, the last is dropped
ShiftRight(B) == [s \in Slots |-> IF s = 1 THEN EmptySlot ELSE B[s - 1]]

\* the occupied entries of a bucket in slot order
SeqOfBucket(B) ==
  LET F[s \in 0..SlotNum] ==
        IF s = 0 THEN <<>>
        ELSE IF Occupied(B[s]) THEN Append(F[s - 1], B[s]) ELSE F[s - 1]
  IN F[SlotNum]

\* ---------------------------------------------------------------- expiry base
ExpireBase == 0
FromAbsoluteTime(at) == at - ExpireBase
ExpireTime(delta) == ExpireBase + delta

\* ---------------------------------------------------------------- versions
\* DbSlice::NextVersion: hands out version_ and increments it
NextVersion(S) == [S EXCEPT !.version = @ + 1, !.tr.handed = Append(@, S.version)]

\* bucket_iterator::SetVersion
SetVersion(S, d, b, v) == [S EXCEPT !.bver[d][b] = v, !.tr.log = Append(@, Ev("ver", d, b, v))]

\* ---------------------------------------------------------------- snapshots
\* SliceSnapshot: pc is "idle" before Start, "running" while the traversal fiber
\* runs, "done" after it has unregistered.  start and missed are history: the
\* entries present at Start and the keys deleted before they were serialized.
\* stream_journal tells that the snapshot consumes the journal, big_value_mu_
\* that the mutex is held by a SerializeBucket that waits inside a flush;
\* journal is history: for every journal entry written to the serializer the
\* length of the stream at that moment (at), its database and key, and whether
\* the serialization of a bucket was under way (mid).
\* cntx_running is cntx_->IsRunning(); journal_cb_id_ and moved_cb_id_ tell that
\* the member holds the id of a callback, journal_hook that the journal holds
\* the callback of the snapshot; done is history: the calls the fiber and
\* FinalizeJournalStream made, in their order; fin is the call of
\* FinalizeJournalStream under way: "join" while it waits for the fiber.
\* snapshot_db_index_ is the member of that name, cursor is snapshot_cursor_
\* and dbi the variable of the loop of IterateBucketsFb.
IdleSnap == [pc |-> "idle", ver |-> 0, pit |-> TRUE, dbi |-> 0, cursor |-> 0,
             stream |-> <<>>, start |-> {}, missed |-> {},
             stream_journal |-> FALSE, big_value_mu_ |-> FALSE, journal |-> <<>>,
             cntx_running |-> TRUE, journal_cb_id_ |-> FALSE, journal_hook |-> FALSE,
             moved_cb_id_ |-> FALSE, snapshot_db_index_ |-> 0, done |-> <<>>,
             fin |-> [pc |-> "none", cancel |-> FALSE, cb_id |-> FALSE, calls |-> 0]]
MaxJournal == 2
MaxFinalize == 2

Rec(d, e) == <<d, e.key, e.val>>
RecsOf(d, es) == [i \in 1..Len(es) |-> Rec(d, es[i])]

\* Has bucket b of database d not been serialized by the running snapshot s?
Unserialized(S, s, d, b) ==
  /\ S.snap[s].pc = "running"
  /\ IF S.snap[s].pit THEN S.bver[d][b] < S.snap[s].ver
     ELSE d > S.snap[s].dbi \/ (d = S.snap[s].dbi /\ b >= S.snap[s].cursor)

\* SerializeBucket that leaves the version of the bucket as it is (C2 depends on it)
SerializeBucketUnmarked(S, s, d, b) ==
  [S EXCEPT !.snap[s].stream = @ \o RecsOf(d, SeqOfBucket(S.prime[d][b])),
            !.tr.log = Append(@, Ev("ser", d, b, S.snap[s].ver))]

\* SliceSnapshot::SerializeBucket
SerializeBucket(S, s, d, b) ==
  [S EXCEPT !.bver[d][b] = IF S.snap[s].pit THEN S.snap[s].ver ELSE @,
            !.snap[s].stream = @ \o RecsOf(d, SeqOfBucket(S.prime[d][b])),
            !.tr.log = Append(@, Ev("ser", d, b, S.snap[s].ver))]

\* the operation has to wait for a mutex
Blocked(S) == [S EXCEPT !.tr.blocked = TRUE]

\* WriteJournalEntry: the entry follows what the serializer holds
WriteJournalEntry(S, s, d, k) ==
  [S EXCEPT !.snap[s].journal = Append(@, [at |-> Len(S.snap[s].stream), d |-> d, k |-> k,
                                           mid |-> S.snap[s].big_value_mu_])]

\* ConsumeJournalChange without the barrier
ConsumeJournalChangeUnlocked(S, s, d, k) == WriteJournalEntry(S, s, d, k)

\* SliceSnapshot::ConsumeJournalChange: big_value_mu_ is the barrier
ConsumeJournalChange(S, s, d, k) ==
  IF S.snap[s].big_value_mu_ THEN Blocked(S) ELSE WriteJournalEntry(S, s, d, k)

\* a journal entry about key k of database d: every snapshot that registered
\* with the journal consumes it
RecordJournal(S, d, k) ==
  LET F[s \in 0..NumSnaps] ==
        IF s = 0 THEN S
        ELSE IF F[s - 1].snap[s].pc = "running" /\ F[s - 1].snap[s].stream_journal
             THEN ConsumeJournalChange(F[s - 1], s, d, k)
             ELSE F[s - 1]
  IN F[NumSnaps]

\* ---------------------------------------------------------------- deletion
\* DbSlice::PerformDeletionAtomic; exp_valid tells whether exp_it is valid
PerformDeletionAtomic(S, d, k, exp_valid) ==
  [S EXCEPT !.expire[d][k] = IF exp_valid THEN NoExpire ELSE @,
            !.prime[d] = Erase(@, k),
            !.entries = @ - 1,
            !.budget = @ + ValMallocUsed(EntryOf(S.prime[d], k).val) + KeyMallocUsed(k),
            !.obj[d] = @ - KeyMallocUsed(k) - ValMallocUsed(EntryOf(S.prime[d], k).val),
            !.tr.log = Append(@, Ev("del", d, BucketOf(S.prime[d], k), k)),
            !.snap = [s \in Snaps |->
                        IF d \in Dbs /\ Unserialized(S, s, d, BucketOf(S.prime[d], k))
                        THEN [S.snap[s] EXCEPT !.missed = @ \cup {<<d, k>>}]
                        ELSE S.snap[s]]]

\* DbSlice::PerformDeletion: the expire iterator is looked up if the flag is set
PerformDeletion(S, d, k) ==
  PerformDeletionAtomic(S, d, k, EntryOf(S.prime[d], k).expire /\ S.expire[d][k] # NoExpire)

ExpireIfNeededDelete(S) == [S EXCEPT !.events.expired_keys = @ + 1]

\* the key joins expired_keys_events_ of its table if the events are recorded
RecordExpiredKey(S, d, k) ==
  IF expired_keys_events_recording_ THEN [S EXCEPT !.expired_keys_events[d] = Append(@, k)]
  ELSE S

\* ExpireIfNeeded that keeps a key whose deadline is the current time (C13
\* depends on the comparison)
ExpireIfNeededLate(S, d, k) ==
  IF ~EntryOf(S.prime[d], k).expire THEN S
  ELSE IF S.expire[d][k] = NoExpire THEN S
  ELSE IF now <= ExpireTime(S.expire[d][k]) \/ is_replica \/ ~expire_allowed_ \/ shard_lock
       THEN S
  ELSE ExpireIfNeededDelete(
         PerformDeletionAtomic(RecordExpiredKey(RecordJournal(S, d, k), d, k), d, k, TRUE))

\* ExpireIfNeeded that looks at the deadline only (C35 depends on the other tests)
ExpireIfNeededAlways(S, d, k) ==
  IF ~EntryOf(S.prime[d], k).expire THEN S
  ELSE IF S.expire[d][k] = NoExpire THEN S
  ELSE IF now < ExpireTime(S.expire[d][k]) THEN S
  ELSE ExpireIfNeededDelete(
         PerformDeletionAtomic(RecordExpiredKey(RecordJournal(S, d, k), d, k), d, k, TRUE))

\* DbSlice::ExpireIfNeeded on an entry of the prime table
ExpireIfNeeded(S, d, k) ==
  IF ~EntryOf(S.prime[d], k).expire THEN S
  ELSE IF S.expire[d][k] = NoExpire THEN S
  ELSE IF now < ExpireTime(S.expire[d][k]) \/ is_replica \/ ~expire_allowed_ \/ shard_lock
       THEN S
  ELSE ExpireIfNeededDelete(
         PerformDeletionAtomic(RecordExpiredKey(RecordJournal(S, d, k), d, k), d, k, TRUE))

\* ---------------------------------------------------------------- change callbacks
\* A change request names a bucket about to be updated (k = NoKey) or a key
\* about to be inserted (DbSlice::ChangeReq).
BucketReq(b) == [b |-> b, k |-> NoKey]
KeyReq(k) == [b |-> 0, k |-> k]

\* PrimeTable::CVCUponInsert: the buckets an insertion of k is about to touch
InsertTargets(P, k) ==
  IF BucketFull(P[Home(k)]) THEN {Home(k), StashBucket} ELSE {Home(k)}

MinOf(bs) == CHOOSE x \in bs : \A y \in bs : x <= y

\* the buckets of bs below version v, serialized for s in bucket order
RECURSIVE SerializeBelow(_, _, _, _, _)
SerializeBelow(S, s, d, bs, v) ==
  IF bs = {} THEN S
  ELSE SerializeBelow(IF S.bver[d][MinOf(bs)] < v THEN SerializeBucket(S, s, d, MinOf(bs)) ELSE S,
                      s, d, bs \ {MinOf(bs)}, v)

\* SliceSnapshot::OnDbChange: it takes big_value_mu_ in either mode
OnDbChange(S, s, d, req) ==
  IF S.snap[s].big_value_mu_ THEN Blocked(S)
  ELSE IF ~S.snap[s].pit THEN S
  ELSE IF req.k = NoKey
       THEN IF S.bver[d][req.b] < S.snap[s].ver THEN SerializeBucket(S, s, d, req.b) ELSE S
       ELSE SerializeBelow(S, s, d, InsertTargets(S.prime[d], req.k), S.snap[s].ver)

\* the slot of a key (KeySlot): every key of the model is in a slot of its own
KeySlot(k) == k

\* a fiber that may call FlushSerialized: pc is "idle", "wait" (in seq_cond_.wait)
\* or "consume" (inside ConsumeData); id and sfile are the locals of the call, ret
\* is what its last call returned, -1 before its first call
NumFibers == 3
MaxItems == 4
Fibers == 1..NumFibers
IdleFiber == [pc |-> "idle", id |-> 0, sfile |-> <<>>, ret |-> -1]

\* the incremental snapshot: pc is "idle", "replay" (at the test of the loop of
\* SwitchIncrementalFb), "pushing" (inside PushSerialized), "streaming" (the
\* journal callback is registered) or "failed" (the error is reported); start
\* is the LSN it was started at, lsn its local, running is cntx_->IsRunning(),
\* out is what it wrote to the serializer: LSNs and FullSyncCut
MaxLsn == 5
JournalCapacity == 2
FullSyncCut == 0
IdleIncremental == [pc |-> "idle", start |-> 0, lsn |-> 0, running |-> TRUE,
                    journal_cb_id_ |-> FALSE, out |-> <<>>]

\* FlushSlotsFb: pc is "idle" or "running"; ver is next_version, the id of its
\* change callback; detached tells that the table it holds was flushed meanwhile;
\* added is history: the keys put into database 0 since the fiber started
IdleFlush == [pc |-> "idle", ver |-> 0, cursor |-> 0, slot_ids |-> {}, detached |-> FALSE,
              added |-> {}]

\* the table FlushSlotsFb holds: db_arr_.front() as it was when the fiber started
FlushTable(S) == IF S.fs.detached THEN Detached ELSE 0

\* iterate_bucket of FlushSlotsFb on bucket b of table t.  The deletion goes
\* through the table the fiber holds; an iterator of another table handed to
\* it is recorded in tr.foreign.
IterateBucket(S, t, b) ==
  LET F[s \in 0..SlotNum] ==
        IF s = 0 THEN S
        ELSE IF Occupied(S.prime[t][b][s]) /\ KeySlot(S.prime[t][b][s].key) \in S.fs.slot_ids
                /\ S.bver[t][b] < S.fs.ver
             THEN IF t = FlushTable(S) THEN PerformDeletion(F[s - 1], t, S.prime[t][b][s].key)
                  ELSE [F[s - 1] EXCEPT !.tr.foreign = TRUE]
             ELSE F[s - 1]
  IN F[SlotNum]

RECURSIVE IterateBelow(_, _, _)
IterateBelow(S, d, bs) ==
  IF bs = {} THEN S
  ELSE IterateBelow(IF S.bver[d][MinOf(bs)] < S.fs.ver THEN IterateBucket(S, d, MinOf(bs)) ELSE S,
                    d, bs \ {MinOf(bs)})

\* a callback that leaves the bucket to the traversal
FlushSlotsOnChangeIgnored(S, d, req) == S

\* the on_change callback of FlushSlotsFb
FlushSlotsOnChange(S, d, req) ==
  IF req.k = NoKey
  THEN IF S.bver[d][req.b] < S.fs.ver THEN IterateBucket(S, d, req.b) ELSE S
  ELSE IterateBelow(S, d, InsertTargets(S.prime[d], req.k))

\* one registered callback invoked: the callback of a snapshot (cb.snap in Snaps)
\* or of FlushSlotsFb (cb.snap = 0)
InvokeCb(S, cb, d, req) ==
  IF cb.snap = 0 THEN FlushSlotsOnChange(Log(S, Ev("cb", d, req.b, cb.ver)), d, req)
  ELSE OnDbChange(Log(S, Ev("cb", d, req.b, cb.ver)), cb.snap, d, req)

\* CallChangeCallbacks from the last registered callback to the first (C4 depends on the order)
CallChangeCallbacksReversed(S, d, req) ==
  LET F[i \in 0..Len(S.cbs)] ==
        IF i = 0 THEN S ELSE InvokeCb(F[i - 1], S.cbs[Len(S.cbs) + 1 - i], d, req)
  IN F[Len(S.cbs)]

\* DbSlice::CallChangeCallbacks: every callback of change_cb_, in list order
CallChangeCallbacks(S, d, req) ==
  LET F[i \in 0..Len(S.cbs)] == IF i = 0 THEN S ELSE InvokeCb(F[i - 1], S.cbs[i], d, req)
  IN F[Len(S.cbs)]

\* the number of callbacks that precede the first one whose version is upper_bound
EarlierCallbacks(cbs, upper_bound) ==
  IF \E i \in 1..Len(cbs) : cbs[i].ver = upper_bound
  THEN (CHOOSE i \in 1..Len(cbs) :
          cbs[i].ver = upper_bound /\ \A j \in 1..(i - 1) : cbs[j].ver # upper_bound) - 1
  ELSE Len(cbs)

\* FlushChangeToEarlierCallbacks that passes the bucket to every callback below
\* upper_bound, whatever the version of the bucket
FlushChangeToEarlierCallbacksAll(S, d, b, upper_bound) ==
  LET F[i \in 0..Len(S.cbs)] ==
        IF i = 0 THEN S ELSE InvokeCb(F[i - 1], S.cbs[i], d, BucketReq(b))
  IN F[EarlierCallbacks(S.cbs, upper_bound)]

\* DbSlice::FlushChangeToEarlierCallbacks
FlushChangeToEarlierCallbacks(S, d, b, upper_bound) ==
  LET F[i \in 0..Len(S.cbs)] ==
        IF i = 0 THEN S
        ELSE IF S.bver[d][b] < S.cbs[i].ver THEN InvokeCb(F[i - 1], S.cbs[i], d, BucketReq(b))
        ELSE F[i - 1]
  IN F[EarlierCallbacks(S.cbs, upper_bound)]

\* DbSlice::PreUpdateBlocking on bucket b: the version is assigned after the callbacks
PreUpdateBlockingBump(S, d, b) == SetVersion(NextVersion(S), d, b, S.version)

\* PreUpdateBlocking that neither calls the callbacks nor assigns the version
\* of the bucket (C3 depends on both)
PreUpdateBlockingSkipped(S, d, k) == NextVersion(S)

\* DbSlice::PreUpdateBlocking on the bucket of key k
PreUpdateBlocking(S, d, k) ==
  PreUpdateBlockingBump(CallChangeCallbacks(S, d, BucketReq(BucketOf(S.prime[d], k))),
                        d, BucketOf(S.prime[d], k))

\* BucketSaveCb without the check of the version of the bucket (C5 depends on it)
BucketSaveCbUnchecked(S, s, d, b) ==
  SerializeBucket(FlushChangeToEarlierCallbacks(S, d, b, S.snap[s].ver), s, d, b)

\* SliceSnapshot::BucketSaveCb
BucketSaveCb(S, s, d, b) ==
  IF S.snap[s].big_value_mu_ THEN Blocked(S)
  ELSE IF S.snap[s].pit
  THEN IF S.bver[d][b] >= S.snap[s].ver THEN S
       ELSE SerializeBucket(FlushChangeToEarlierCallbacks(S, d, b, S.snap[s].ver), s, d, b)
  ELSE SerializeBucket(S, s, d, b)

\* ---------------------------------------------------------------- object memory
\* AccountObjectMemory: size bytes are added to obj_memory_usage of table d
AccountObjectMemory(S, d, size) == [S EXCEPT !.obj[d] = @ + size]

\* the constructor of AutoUpdater on the entry of k: the heap size of the value is kept
AutoUpdater(S, d, k) ==
  [S EXCEPT !.tr.upd = [live |-> TRUE, d |-> d, k |-> k,
                        orig_heap_size |-> ValMallocUsed(EntryOf(S.prime[d], k).val)]]

\* ReduceHeapUsage that keeps orig_heap_size (C11 depends on the reset)
ReduceHeapUsageKept(S) == AccountObjectMemory(S, S.tr.upd.d, 0 - S.tr.upd.orig_heap_size)

\* DbSlice::AutoUpdater::ReduceHeapUsage
ReduceHeapUsage(S) ==
  [AccountObjectMemory(S, S.tr.upd.d, 0 - S.tr.upd.orig_heap_size)
     EXCEPT !.tr.upd.orig_heap_size = 0]

\* DbSlice::AutoUpdater::Run: a cancelled updater does nothing; an updater whose
\* key was erased reads through a stale iterator
AutoUpdaterRun(S) ==
  IF ~S.tr.upd.live THEN S
  ELSE IF ~Has(S.prime[S.tr.upd.d], S.tr.upd.k) THEN [S EXCEPT !.tr.foreign = TRUE]
  ELSE [AccountObjectMemory(S, S.tr.upd.d,
                            ValMallocUsed(EntryOf(S.prime[S.tr.upd.d], S.tr.upd.k).val)
                              - S.tr.upd.orig_heap_size)
          EXCEPT !.tr.upd = NoUpdater]

\* the destructor of the AutoUpdater at the end of the scope of an operation
ScopeEnd(R) == [R EXCEPT !.S = AutoUpdaterRun(@)]

\* ---------------------------------------------------------------- find
\* the hash of a key: the keys of the model have hashes of their own
HashCode(k) == k

\* the entry found is remembered for the bump at the end of the callback
FindInternalFetched(S, d, k) ==
  IF cache_mode_ THEN [S EXCEPT !.fetched = @ \cup {<<HashCode(k), d>>}] ELSE S

FindInternalExpired(S, d, k) ==
  IF Has(S.prime[d], k) THEN Res(FindInternalFetched(S, d, k), "OK")
  ELSE Res(S, "KEY_NOTFOUND")

\* DbSlice::FindInternal (every stored value is a string: no type mismatch)
FindInternal(S, d, k) ==
  IF ~Has(S.prime[d], k) THEN Res(S, "KEY_NOTFOUND")
  ELSE IF ~EntryOf(S.prime[d], k).expire THEN Res(FindInternalFetched(S, d, k), "OK")
  ELSE FindInternalExpired(ExpireIfNeeded(S, d, k), d, k)

\* FindMutableInternal that does not look at the iterator after PreUpdateBlocking
\* (C36 depends on the test)
FindMutableInternalUnchecked(S, d, k) ==
  IF Has(S.prime[d], k) THEN Res(AutoUpdater(S, d, k), "OK")
  ELSE Res([S EXCEPT !.tr.upd = [live |-> TRUE, d |-> d, k |-> k, orig_heap_size |-> 0]], "OK")

\* after PreUpdateBlocking: the callbacks may have deleted the entry
FindMutableInternalUpdated(S, d, k) ==
  IF Has(S.prime[d], k) THEN Res(AutoUpdater(S, d, k), "OK") ELSE Res(S, "KEY_NOTFOUND")

FindMutableInternalFound(F, d, k) ==
  IF F.status # "OK" THEN F
  ELSE FindMutableInternalUpdated(PreUpdateBlocking(F.S, d, k), d, k)

\* DbSlice::FindMutableInternal
FindMutableInternal(S, d, k) == FindMutableInternalFound(FindInternal(S, d, k), d, k)

\* ---------------------------------------------------------------- eviction policy
max_memory_limit == 100
kSegBytes == 10
bytes_per_object == 2

\* 0.3 * max_memory_limit / shard_set->size(), one shard
SoftBudgetLimit == (3 * max_memory_limit) \div 10

\* PrimeEvictionPolicy::CanGrow; table_growth_margin is 0.4 and the product
\* is truncated to size_t
CanGrow(S, P, mem_offset, apply_memory_limit) ==
  IF ~apply_memory_limit \/ S.budget + mem_offset > SoftBudgetLimit THEN TRUE
  ELSE S.budget + mem_offset >
         kSegBytes
         + bytes_per_object * ((((TableCapacity - TableSize(P)) + TableCapacity) * 4) \div 10)

\* the return value of GarbageCollect: the entries that ExpireIfNeeded deleted
GarbageCollectResult(S, G, d) ==
  [S |-> G, res |-> TableSize(S.prime[d]) - TableSize(G.prime[d])]

\* PrimeEvictionPolicy::GarbageCollect on the regular hot bucket b
GarbageCollect(S, d, b) ==
  LET F[s \in 0..SlotNum] ==
        IF s = 0 THEN S
        ELSE IF Occupied(S.prime[d][b][s]) /\ S.prime[d][b][s].expire
             THEN ExpireIfNeeded(F[s - 1], d, S.prime[d][b][s].key)
             ELSE F[s - 1]
  IN GarbageCollectResult(S, F[SlotNum], d)

\* a key that the eviction removes: e is its entry
EvictKeyTrace(S, d, e) == [S EXCEPT !.tr.evicted = @ \cup {[d |-> d, e |-> e]}]
EvictKey(S, d, k) == EvictKeyTrace(PerformDeletion(S, d, k), d, EntryOf(S.prime[d], k))

EvictShiftRight(S, d) == [S EXCEPT !.prime[d][StashBucket] = ShiftRight(@)]

\* Evict without the check of the sticky flag (C7 depends on it)
EvictSticky(S, d, can_evict) ==
  IF ~can_evict THEN [S |-> S, res |-> 0, evicted |-> 0]
  ELSE IF ~Occupied(S.prime[d][StashBucket][SlotNum])
       THEN [S |-> EvictShiftRight(S, d), res |-> 1, evicted |-> 0]
  ELSE IF S.prime[d][StashBucket][SlotNum].key \in trans_locks[d]
       THEN [S |-> S, res |-> 0, evicted |-> 0]
  ELSE [S |-> EvictShiftRight(EvictKey(S, d, S.prime[d][StashBucket][SlotNum].key), d),
        res |-> 1, evicted |-> 1]

\* Evict without the check of the transaction locks (C8 depends on it)
EvictLocked(S, d, can_evict) ==
  IF ~can_evict THEN [S |-> S, res |-> 0, evicted |-> 0]
  ELSE IF ~Occupied(S.prime[d][StashBucket][SlotNum])
       THEN [S |-> EvictShiftRight(S, d), res |-> 1, evicted |-> 0]
  ELSE IF S.prime[d][StashBucket][SlotNum].sticky THEN [S |-> S, res |-> 0, evicted |-> 0]
  ELSE [S |-> EvictShiftRight(EvictKey(S, d, S.prime[d][StashBucket][SlotNum].key), d),
        res |-> 1, evicted |-> 1]

\* PrimeEvictionPolicy::Evict: the last slot of the stash bucket of the hot set;
\* evicted is evicted_
Evict(S, d, can_evict) ==
  IF ~can_evict THEN [S |-> S, res |-> 0, evicted |-> 0]
  ELSE IF ~Occupied(S.prime[d][StashBucket][SlotNum])
       THEN [S |-> EvictShiftRight(S, d), res |-> 1, evicted |-> 0]
  ELSE IF S.prime[d][StashBucket][SlotNum].sticky THEN [S |-> S, res |-> 0, evicted |-> 0]
  ELSE IF S.prime[d][StashBucket][SlotNum].key \in trans_locks[d]
       THEN [S |-> S, res |-> 0, evicted |-> 0]
  ELSE [S |-> EvictShiftRight(EvictKey(S, d, S.prime[d][StashBucket][SlotNum].key), d),
        res |-> 1, evicted |-> 1]

\* ---------------------------------------------------------------- insertion
\* the new entry of k put into the first free slot of bucket b
Place(S, d, b, k) ==
  [S EXCEPT !.prime[d][b][FirstFree(S.prime[d][b])] = NewEntry(k),
            !.tr.log = Append(@, Ev("mut", d, b, k))]

PlaceAny(S, d, k) ==
  IF ~BucketFull(S.prime[d][Home(k)]) THEN Place(S, d, Home(k), k)
  ELSE Place(S, d, StashBucket, k)

SegmentFull(P, k) == BucketFull(P[Home(k)]) /\ BucketFull(P[StashBucket])

InsertNewEvicted(E, d, k) ==
  IF E.res > 0 THEN [S |-> PlaceAny(E.S, d, k), res |-> "ok", evicted |-> E.evicted]
  ELSE [S |-> E.S, res |-> "bad_alloc", evicted |-> 0]

InsertNewCollected(G, d, k, can_evict) ==
  IF G.res > 0 THEN [S |-> PlaceAny(G.S, d, k), res |-> "ok", evicted |-> 0]
  ELSE InsertNewEvicted(Evict(G.S, d, can_evict), d, k)

\* PrimeTable::InsertNew with the eviction policy: res is "ok", "bad_alloc", or
\* "grow" when the segment would have to be split.
InsertNew(S, d, k, can_evict, mem_offset, apply_memory_limit) ==
  IF ~SegmentFull(S.prime[d], k) THEN [S |-> PlaceAny(S, d, k), res |-> "ok", evicted |-> 0]
  ELSE IF CanGrow(S, S.prime[d], mem_offset, apply_memory_limit)
       THEN [S |-> S, res |-> "grow", evicted |-> 0]
  ELSE InsertNewCollected(GarbageCollect(S, d, Home(k)), d, k, can_evict)

Reject(S) == [S EXCEPT !.events.insertion_rejections = @ + 1]

\* db.prime.mem_usage() after InsertNew minus its value before: the memory of
\* the table changes when a segment is added, and the table of the model keeps
\* its one segment
table_increase == 0

\* the accounting of a new entry in bucket b: memory_budget_, entries_count_,
\* obj_memory_usage for the key, the version of the bucket and evicted_keys
AddOrFindInternalAccount(S, d, b, k, evicted) ==
  SetVersion(NextVersion([S EXCEPT !.budget = @ - table_increase,
                                   !.entries = @ + 1, !.events.evicted_keys = @ + evicted,
                                   !.obj[d] = @ + KeyMallocUsed(k)]),
             d, b, S.version)

AddOrFindInternalInserted(I, d, k) ==
  IF I.res = "grow" THEN Res(I.S, "GROW")
  ELSE IF I.res = "bad_alloc" THEN Res(Reject(I.S), "OUT_OF_MEMORY")
  ELSE ResNew(AutoUpdater(AddOrFindInternalAccount(I.S, d, BucketOf(I.S.prime[d], k), k,
                                                   I.evicted), d, k), "OK")

\* AddOrFindInternalInsert without the check of the memory budget (C9 depends on it)
AddOrFindInternalInsertUnchecked(S, d, k) ==
  AddOrFindInternalInserted(
    InsertNew(S, d, k, cache_mode_ /\ ~is_replica, 0 - KeyLen(k), ~is_replica /\ ~loading),
    d, k)

\* after the change callbacks: memory_offset is -key.size()
AddOrFindInternalInsert(S, d, k) ==
  IF (~is_replica /\ ~loading) /\ ~cache_mode_ /\ S.budget + (0 - KeyLen(k)) < 0
  THEN Res(Reject(S), "OUT_OF_MEMORY")
  ELSE AddOrFindInternalInserted(
         InsertNew(S, d, k, cache_mode_ /\ ~is_replica, 0 - KeyLen(k), ~is_replica /\ ~loading),
         d, k)

\* the key is new: the change callbacks are called with the key
AddOrFindInternalNew(S, d, k) ==
  AddOrFindInternalInsert(CallChangeCallbacks(S, d, KeyReq(k)), d, k)

\* after PreUpdateBlocking: the callbacks may have deleted the entry
AddOrFindInternalUpdated(S, d, k) ==
  IF Has(S.prime[d], k) THEN Res(AutoUpdater(S, d, k), "OK") ELSE AddOrFindInternalNew(S, d, k)

AddOrFindInternalFound(F, d, k) ==
  IF F.status = "OK" THEN AddOrFindInternalUpdated(PreUpdateBlocking(F.S, d, k), d, k)
  ELSE AddOrFindInternalNew(F.S, d, k)

\* DbSlice::AddOrFindInternal
AddOrFindInternal(S, d, k) == AddOrFindInternalFound(FindInternal(S, d, k), d, k)

\* ---------------------------------------------------------------- expire table
\* is the expire iterator that a find on k hands to its caller valid?
ExpItValid(S, d, k) == EntryOf(S.prime[d], k).expire /\ S.expire[d][k] # NoExpire

SetEntry(S, d, k, e) == [S EXCEPT !.prime[d] = Put(@, k, e)]

\* DbSlice::AddExpire: CHECK fails (the process aborts) if the key is in the table
AddExpireAborts(S, d, k) == S.expire[d][k] # NoExpire
AddExpire(S, d, k, at) ==
  [S EXCEPT !.expire[d][k] = at - ExpireBase,
            !.prime[d] = Put(@, k, [EntryOf(@, k) EXCEPT !.expire = TRUE])]

\* DbSlice::RemoveExpire: CHECK_EQ fails if the flag is set and the key is not in the table
RemoveExpireAborts(S, d, k) == EntryOf(S.prime[d], k).expire /\ S.expire[d][k] = NoExpire
RemoveExpire(S, d, k) ==
  IF EntryOf(S.prime[d], k).expire
  THEN [S EXCEPT !.expire[d][k] = NoExpire,
                 !.prime[d] = Put(@, k, [EntryOf(@, k) EXCEPT !.expire = FALSE])]
  ELSE S

\* CompactObj move assignment: the value and its flags are those of the source
\* object, which carries no expire flag; the key keeps its own flags.
MoveAssign(e, v) == [e EXCEPT !.val = v, !.expire = FALSE]
\* CompactObj::SetString keeps the flags
SetString(e, v) == [e EXCEPT !.val = v]

\* ---------------------------------------------------------------- add / update
\* the assignment of the value and of the deadline: an expire entry is updated
\* or inserted, both leave the deadline in the table
AddOrUpdateInternalAssign(S, d, k, v, expire_at_ms) ==
  IF expire_at_ms # 0
  THEN [S EXCEPT !.prime[d] = Put(@, k, [MoveAssign(EntryOf(@, k), v) EXCEPT !.expire = TRUE]),
                 !.expire[d][k] = expire_at_ms - ExpireBase]
  ELSE [S EXCEPT !.prime[d] = Put(@, k, MoveAssign(EntryOf(@, k), v))]

AddOrUpdateInternalFound(A, d, k, v, expire_at_ms, force_update) ==
  IF A.status # "OK" THEN A
  ELSE IF ~A.is_new /\ ~force_update THEN A
  ELSE [A EXCEPT !.S = AddOrUpdateInternalAssign(@, d, k, v, expire_at_ms)]

\* DbSlice::AddOrUpdateInternal
AddOrUpdateInternal(S, d, k, v, expire_at_ms, force_update) ==
  AddOrUpdateInternalFound(AddOrFindInternal(S, d, k), d, k, v, expire_at_ms, force_update)

\* ---------------------------------------------------------------- SET
\* SetParams: how is "" (always), "NX" or "XX"; keep is KEEPTTL; stick is STICK
SetParamsSet == [how : {"", "NX", "XX"}, keep : BOOLEAN, stick : BOOLEAN, expire_after_ms : 0..1]

\* the expiry part of SetCmd::SetExisting
SetExistingExpire(S, d, k, params, exp_valid) ==
  IF params.keep THEN S
  ELSE IF params.expire_after_ms # 0
       THEN IF exp_valid
            THEN [S EXCEPT !.expire[d][k] = FromAbsoluteTime(params.expire_after_ms + now)]
            ELSE AddExpire(S, d, k, params.expire_after_ms + now)
       ELSE RemoveExpire(S, d, k)

\* the flags and the value of SetCmd::SetExisting
SetExistingValue(S, d, k, v, params) ==
  SetEntry(ReduceHeapUsage(S), d, k,
           SetString([EntryOf(S.prime[d], k) EXCEPT !.sticky = @ \/ params.stick], v))

\* SetCmd::PostEdit: the journal entry of the SET
PostEdit(R, d, k) == [R EXCEPT !.S = RecordJournal(@, d, k)]

\* SetCmd::SetExisting; exp_valid tells whether the caller's expire iterator is valid
SetExisting(S, d, k, v, params, exp_valid) ==
  IF ~params.keep /\ params.expire_after_ms # 0 /\ ~exp_valid /\ AddExpireAborts(S, d, k)
  THEN Res(S, "ABORT")
  ELSE IF ~params.keep /\ params.expire_after_ms = 0 /\ RemoveExpireAborts(S, d, k)
  THEN Res(S, "ABORT")
  ELSE PostEdit(Res(SetExistingValue(SetExistingExpire(S, d, k, params, exp_valid),
                                      d, k, v, params), "OK"),
                d, k)

SetAddNewSticky(S, d, k, params) ==
  IF params.stick THEN SetEntry(S, d, k, [EntryOf(S.prime[d], k) EXCEPT !.sticky = TRUE]) ELSE S

SetAddNewExpire(S, d, k, params) ==
  IF params.expire_after_ms # 0 THEN AddExpire(S, d, k, params.expire_after_ms + now) ELSE S

\* SetCmd::AddNew on the fresh entry of k
SetAddNew(S, d, k, v, params) ==
  IF params.expire_after_ms # 0 /\ AddExpireAborts(S, d, k) THEN Res(S, "ABORT")
  ELSE PostEdit(ResNew(SetAddNewSticky(
                         SetAddNewExpire(SetEntry(S, d, k, MoveAssign(EntryOf(S.prime[d], k), v)),
                                         d, k, params),
                         d, k, params), "OK"),
                d, k)

SetAlwaysFound(A, d, k, v, params) ==
  IF A.status # "OK" THEN A
  ELSE IF ~A.is_new THEN SetExisting(A.S, d, k, v, params, ExpItValid(A.S, d, k))
  ELSE SetAddNew(A.S, d, k, v, params)

\* the unconditional part of SetCmd::Set
SetAlways(S, d, k, v, params) == SetAlwaysFound(AddOrFindInternal(S, d, k), d, k, v, params)

\* a SET that takes NX for XX and XX for NX
SetConditionalSwapped(F, d, k, v, params) ==
  IF params.how = "NX"
  THEN IF F.status = "OK" THEN SetExisting(F.S, d, k, v, params, ExpItValid(F.S, d, k))
       ELSE Res(F.S, "SKIPPED")
  ELSE IF F.status = "OK" THEN Res(F.S, "SKIPPED")
       ELSE SetAlways(F.S, d, k, v, params)

\* the conditional part of SetCmd::Set on the result of FindMutable
SetConditional(F, d, k, v, params) ==
  IF params.how = "XX"
  THEN IF F.status = "OK" THEN SetExisting(F.S, d, k, v, params, ExpItValid(F.S, d, k))
       ELSE Res(F.S, "SKIPPED")
  ELSE IF F.status = "OK" THEN Res(F.S, "SKIPPED")
       ELSE SetAlways(F.S, d, k, v, params)

\* SetCmd::Set
SetCmdSet(S, d, k, v, params) ==
  IF params.how = "" THEN SetAlways(S, d, k, v, params)
  ELSE SetConditional(FindMutableInternal(S, d, k), d, k, v, params)

\* ---------------------------------------------------------------- expire update
\* the largest relative deadline, scaled to the horizon of the model
kMaxExpireDeadlineMs == MaxTime + 1
\* ExpireFlags: expire_options is a set of flags (a bit mask)
ExpireFlags == {"NX", "XX", "GT", "LT"}
\* ExpireParams with unit MSEC: value, absolute, persist, expire_options
ExpireParamsSet == [value : (0 - 1)..(kMaxExpireDeadlineMs + 1), absolute : BOOLEAN,
                    persist : BOOLEAN, opt : SUBSET ExpireFlags]

\* DbSlice::ExpireParams::Calculate without cap: <<rel_msec, abs_msec>>
Calculate(params, now_ms) ==
  IF params.persist THEN <<0, 0>>
  ELSE IF params.absolute THEN <<params.value - now_ms, params.value>>
  ELSE <<params.value, now_ms + params.value>>

\* the deadline part of UpdateExpire with GT and LT comparing strictly (C14
\* depends on the equal deadlines)
UpdateExpireSetStrict(S, d, k, exp_valid, params, abs_msec) ==
  IF exp_valid
  THEN IF "NX" \in params.opt THEN Res(S, "SKIPPED")
       ELSE IF "LT" \in params.opt /\ ExpireTime(S.expire[d][k]) < abs_msec THEN Res(S, "SKIPPED")
       ELSE IF "GT" \in params.opt /\ ExpireTime(S.expire[d][k]) > abs_msec THEN Res(S, "SKIPPED")
       ELSE Res([S EXCEPT !.expire[d][k] = FromAbsoluteTime(abs_msec)], "OK")
  ELSE IF "XX" \in params.opt THEN Res(S, "SKIPPED")
       ELSE IF AddExpireAborts(S, d, k) THEN Res(S, "ABORT")
       ELSE Res(AddExpire(S, d, k, abs_msec), "OK")

\* the deadline part of DbSlice::UpdateExpire
UpdateExpireSet(S, d, k, exp_valid, params, abs_msec) ==
  IF exp_valid
  THEN IF "NX" \in params.opt THEN Res(S, "SKIPPED")
       ELSE IF "LT" \in params.opt /\ ExpireTime(S.expire[d][k]) <= abs_msec THEN Res(S, "SKIPPED")
       ELSE IF "GT" \in params.opt /\ ExpireTime(S.expire[d][k]) >= abs_msec THEN Res(S, "SKIPPED")
       ELSE Res([S EXCEPT !.expire[d][k] = FromAbsoluteTime(abs_msec)], "OK")
  ELSE IF "XX" \in params.opt THEN Res(S, "SKIPPED")
       ELSE IF AddExpireAborts(S, d, k) THEN Res(S, "ABORT")
       ELSE Res(AddExpire(S, d, k, abs_msec), "OK")

\* DbSlice::UpdateExpire(cntx, prime_it, expire_it, params)
UpdateExpire(S, d, k, exp_valid, params) ==
  IF params.persist
  THEN IF RemoveExpireAborts(S, d, k) THEN Res(S, "ABORT") ELSE Res(RemoveExpire(S, d, k), "OK")
  ELSE IF Calculate(params, now)[2] < 0 \/ Calculate(params, now)[1] > kMaxExpireDeadlineMs
       THEN Res(S, "OUT_OF_RANGE")
  ELSE IF Calculate(params, now)[1] <= 0 THEN Res(PerformDeletion(S, d, k), "OK")
  ELSE UpdateExpireSet(S, d, k, exp_valid, params, Calculate(params, now)[2])

FindKeyAndSetExpiryFound(F, d, k, params) ==
  IF F.status # "OK" THEN F
  ELSE UpdateExpire(AutoUpdaterRun(F.S), d, k, ExpItValid(F.S, d, k), params)

\* FindKeyAndSetExpiry: find the key for update, then update its deadline
FindKeyAndSetExpiry(S, d, k, params) ==
  FindKeyAndSetExpiryFound(FindMutableInternal(S, d, k), d, k, params)

\* ---------------------------------------------------------------- expiry sweep
\* ExpireTable::Traverse from cursor c: the position visited is key c + 1
NextCursor(c) == (c + 1) % NumKeys

\* the expired entry of key k: deleted with its prime entry, or erased alone if
\* the prime table has no such key
SweepExpired(S, d, k) ==
  IF ~Has(S.prime[d], k) THEN [S EXCEPT !.expire[d][k] = NoExpire]
  ELSE ExpireIfNeeded(S, d, k)

\* the callback of DbSlice::DeleteExpiredStep on key k of the expire table;
\* st is [S, traversed, deleted, advanced].  This one counts an entry before
\* it looks at the lock of its key (C16 depends on the order).
SweepCbCounted(st, d, k) ==
  IF k \in trans_locks[d] THEN [st EXCEPT !.traversed = @ + 1]
  ELSE IF ExpireTime(st.S.expire[d][k]) - now <= 0
       THEN [st EXCEPT !.S = SweepExpired(st.S, d, k),
                       !.traversed = @ + 1, !.deleted = @ + 1]
       ELSE [st EXCEPT !.traversed = @ + 1]

\* the callback of DbSlice::DeleteExpiredStep: CheckLock(EXCLUSIVE) fails for
\* a key that is locked in any mode
SweepCb(st, d, k) ==
  IF k \in trans_locks[d] THEN st
  ELSE IF ExpireTime(st.S.expire[d][k]) - now <= 0
       THEN [st EXCEPT !.S = SweepExpired(st.S, d, k),
                       !.traversed = @ + 1, !.deleted = @ + 1]
       ELSE [st EXCEPT !.traversed = @ + 1]

\* one call of Traverse; advanced is history: the calls of the step so far
SweepAdvance(st, d) == [st EXCEPT !.S.cursor[d] = NextCursor(@), !.advanced = @ + 1]

SweepVisit(st, d) ==
  IF st.S.expire[d][st.S.cursor[d] + 1] # NoExpire
  THEN SweepAdvance(SweepCb(st, d, st.S.cursor[d] + 1), d)
  ELSE SweepAdvance(st, d)

RECURSIVE SweepLoop(_, _, _)
SweepLoop(st, d, n) == IF n = 0 THEN st ELSE SweepLoop(SweepVisit(st, d), d, n - 1)

\* the first phase of DeleteExpiredStep: count / 3 calls of Traverse
DeleteExpiredStepFirst(S, d, count) ==
  SweepLoop([S |-> S, traversed |-> 0, deleted |-> 0, advanced |-> 0], d, count \div 3)

\* the second phase entered at a deletion rate of a quarter already
DeleteExpiredStepRestAtLeast(first, d, count) ==
  IF first.deleted * 4 >= first.traversed
  THEN SweepLoop(first, d, count - (count \div 3))
  ELSE first

\* the second phase of DeleteExpiredStep: the loop goes on to count calls in
\* all if the first phase deleted more than a quarter of what it visited
DeleteExpiredStepRest(first, d, count) ==
  IF first.deleted * 4 > first.traversed
  THEN SweepLoop(first, d, count - (count \div 3))
  ELSE first

\* the channel of the expired keys of database d
KeyeventChannel(d) == <<"__keyevent@", d, "__:expired">>

\* the end of DeleteExpiredStep: the recorded keys are sent and cleared
DeleteExpiredStepSend(st, d) ==
  IF st.S.expired_keys_events[d] = <<>> THEN st
  ELSE [st EXCEPT !.S.sent = Append(@, [channel |-> KeyeventChannel(d),
                                        messages |-> st.S.expired_keys_events[d]]),
                  !.S.expired_keys_events[d] = <<>>]

\* DbSlice::DeleteExpiredStep
DeleteExpiredStep(S, d, count) ==
  DeleteExpiredStepSend(
    DeleteExpiredStepRest(DeleteExpiredStepFirst(S, d, count), d, count),
    d)

\* ---------------------------------------------------------------- heartbeat eviction
\* the default of the flag max_eviction_per_heartbeat; the step reads the flag
\* at every call (max_eviction_per_hb)
max_eviction_per_heartbeat == 100

\* the positions FreeMemWithEvictionStepAtomic visits: slots from the highest to
\* the lowest, and for each slot the buckets from the largest id down to 0
EvictionOrder ==
  [i \in 1..(SlotNum * (NumBuckets + 1)) |->
     <<NumBuckets - ((i - 1) % (NumBuckets + 1)), SlotNum - ((i - 1) \div (NumBuckets + 1))>>]

HasAllocated(e) == ValMallocUsed(e.val) > 0 \/ KeyMallocUsed(e.key) > 0

\* CanEvictEntry without the test of has_allocated (C15 depends on it)
CanEvictEntryInline(d, e) ==
  /\ Occupied(e)
  /\ ~e.sticky
  /\ e.key \notin trans_locks[d]

\* may the heartbeat step evict entry e of database d?
CanEvictEntry(d, e) ==
  /\ Occupied(e)
  /\ ~e.sticky
  /\ HasAllocated(e)
  /\ e.key \notin trans_locks[d]

\* one position of the loop: p is [S, items, bytes, stop], e the entry at the position
FreeMemVisit(p, d, e, increase_goal_bytes, max_eviction_per_hb) ==
  IF p.stop \/ ~CanEvictEntry(d, e) THEN p
  ELSE [S |-> EvictKey(p.S, d, e.key), items |-> p.items + 1,
        keys_to_journal |-> IF expired_keys_events_recording_
                            THEN Append(p.keys_to_journal, e.key) ELSE p.keys_to_journal,
        bytes |-> p.bytes + KeyMallocUsed(e.key) + ValMallocUsed(e.val),
        stop |-> (p.items + 1 = max_eviction_per_hb)
                   \/ p.bytes + KeyMallocUsed(e.key) + ValMallocUsed(e.val) >= increase_goal_bytes]

\* after the loop: the keys join expired_keys_events_ if the events are recorded
FreeMemFinish(R, d) ==
  [R EXCEPT !.S.events.evicted_keys = @ + R.items,
            !.S.expired_keys_events[d] =
               IF expired_keys_events_recording_ THEN @ \o R.keys_to_journal ELSE @]

\* DbSlice::FreeMemWithEvictionStepAtomic: [S, items, bytes]
FreeMemWithEvictionStepAtomic(S, d, increase_goal_bytes, max_eviction_per_hb) ==
  LET F[i \in 0..Len(EvictionOrder)] ==
        IF i = 0 THEN [S |-> S, items |-> 0, bytes |-> 0, stop |-> FALSE, keys_to_journal |-> <<>>]
        ELSE FreeMemVisit(F[i - 1], d, EntryAt(S.prime[d], EvictionOrder[i]), increase_goal_bytes,
                          max_eviction_per_hb)
  IN IF ~cache_mode_ \/ ~expire_allowed_
     THEN [S |-> S, items |-> 0, bytes |-> 0, stop |-> TRUE, keys_to_journal |-> <<>>]
     ELSE FreeMemFinish(F[Len(EvictionOrder)], d)

\* ---------------------------------------------------------------- flush
FlushDbIndexCreate(S, d, size) ==
  [S EXCEPT !.entries = @ - size,
            !.obj[d] = 0,
            !.prime[d] = EmptyPrime,
            !.bver[d] = NoVersions,
            !.expire[d] = EmptyExpire,
            !.expired_keys_events[d] = <<>>,
            !.cursor[d] = 0]

\* DbSlice::FlushDbIndexes for one index: the table is replaced by a fresh one
\* (the transaction locks are kept); a running FlushSlotsFb keeps the old table
FlushDbIndex(S, d) ==
  IF d = 0 /\ S.fs.pc = "running" /\ ~S.fs.detached
  THEN FlushDbIndexCreate([S EXCEPT !.prime[Detached] = S.prime[0],
                                    !.bver[Detached] = S.bver[0],
                                    !.expire[Detached] = S.expire[0],
                                    !.obj[Detached] = S.obj[0],
                                    !.fs.detached = TRUE],
                          d, TableSize(S.prime[d]))
  ELSE FlushDbIndexCreate(S, d, TableSize(S.prime[d]))

\* ---------------------------------------------------------------- change-callback registry
\* RegisterOnChange that reads version_ without taking it (C6 depends on NextVersion)
RegisterOnChangeStale(S, s) == [S EXCEPT !.cbs = Append(@, [ver |-> S.version, snap |-> s])]

\* DbSlice::RegisterOnChange for snapshot s (0: FlushSlotsFb)
RegisterOnChange(S, s) ==
  [NextVersion(S) EXCEPT !.cbs = Append(@, [ver |-> S.version, snap |-> s])]

\* the index of the first callback whose version is id
IndexOfCallback(cbs, id) ==
  CHOOSE j \in 1..Len(cbs) : cbs[j].ver = id /\ \A h \in 1..(j - 1) : cbs[h].ver # id

RemoveAt(q, i) == SubSeq(q, 1, i - 1) \o SubSeq(q, i + 1, Len(q))

\* DbSlice::UnregisterOnChange
UnregisterOnChange(S, id) == [S EXCEPT !.cbs = RemoveAt(@, IndexOfCallback(@, id))]

\* ---------------------------------------------------------------- FlushSlotsFb
\* the start of FlushSlotsFb: the callback is registered, its id is next_version
FlushSlotsBegin(S, slot_ids) ==
  [RegisterOnChange(S, 0) EXCEPT !.fs = [IdleFlush EXCEPT !.pc = "running", !.ver = S.version,
                                                          !.slot_ids = slot_ids]]

FlushSlotsAdvance(S) == [S EXCEPT !.fs.cursor = @ + 1]

\* one TraverseBuckets call of the loop of FlushSlotsFb
FlushSlotsTraverse(S) == FlushSlotsAdvance(IterateBucket(S, FlushTable(S), S.fs.cursor))

\* the end of FlushSlotsFb: the callback is unregistered, the table it held is released
FlushSlotsEnd(S) ==
  [UnregisterOnChange(S, S.fs.ver) EXCEPT !.fs = IdleFlush,
                                          !.prime[Detached] = EmptyPrime,
                                          !.bver[Detached] = NoVersions,
                                          !.obj[Detached] = 0,
                                          !.expire[Detached] = EmptyExpire]

\* ---------------------------------------------------------------- bump at the end of a callback
\* PrimeBumpPolicy::CanBump
CanBump(e) == ~e.sticky

\* PrimeTable::CVCUponBump for the entry at position l: a bump inside a regular
\* bucket touches no other bucket; a bump out of the stash bucket touches the
\* stash bucket and the home bucket.  The buckets below ver_threshold, in order.
CVCUponBump(S, d, ver_threshold, l) ==
  IF l[1] # StashBucket THEN <<>>
  ELSE (IF S.bver[d][StashBucket] < ver_threshold THEN <<StashBucket>> ELSE <<>>)
       \o (IF S.bver[d][Home(EntryAt(S.prime[d], l).key)] < ver_threshold
           THEN <<Home(EntryAt(S.prime[d], l).key)>> ELSE <<>>)

\* bump_cb on every bucket that CVCUponBump names
BumpCallbacks(S, d, bs) ==
  LET F[i \in 0..Len(bs)] ==
        IF i = 0 THEN S ELSE CallChangeCallbacks(F[i - 1], d, BucketReq(bs[i]))
  IN F[Len(bs)]

\* the entries at positions l and m change places
SwapSlots(S, d, l, m) ==
  [S EXCEPT !.prime[d] = PutAt(PutAt(@, l, EntryAt(S.prime[d], m)), m, EntryAt(S.prime[d], l))]

\* PrimeTable::BumpUp on the iterator at position l: inside a regular bucket the
\* entry changes places with the slot before it, out of the stash bucket with
\* the last slot of its home bucket; neither a sticky entry nor the entry that
\* would make room for it if that one is sticky is moved.  An iterator whose
\* entry was erased is stale.
BumpUp(S, d, l) ==
  IF ~Occupied(EntryAt(S.prime[d], l)) THEN [S EXCEPT !.tr.foreign = TRUE]
  ELSE IF ~CanBump(EntryAt(S.prime[d], l)) THEN S
  ELSE IF l[1] # StashBucket
       THEN IF l[2] > 1 /\ CanBump(EntryAt(S.prime[d], <<l[1], l[2] - 1>>))
            THEN SwapSlots(S, d, l, <<l[1], l[2] - 1>>)
            ELSE S
  ELSE IF CanBump(EntryAt(S.prime[d], <<Home(EntryAt(S.prime[d], l).key), SlotNum>>))
       THEN SwapSlots(S, d, l, <<Home(EntryAt(S.prime[d], l).key), SlotNum>>)
       ELSE S

\* policy.moved_items() after BumpUp on the iterator at position l: the pairs
\* <<source, dest>> of the entries that changed places
BumpMoves(S, d, l) ==
  LET m == IF l[1] # StashBucket THEN <<l[1], l[2] - 1>>
           ELSE <<Home(EntryAt(S.prime[d], l).key), SlotNum>>
  IN IF BumpUp(S, d, l).prime = S.prime THEN <<>>
     ELSE <<<<l, m>>>> \o (IF Occupied(EntryAt(S.prime[d], m)) THEN <<<<m, l>>>> ELSE <<>>)

\* SliceSnapshot::IsPositionSerialized with the traversal at database dbi
IsPositionSerializedAt(S, s, dbi, id, b) ==
  id < dbi \/ (id = dbi /\ b < S.snap[s].cursor)

\* SliceSnapshot::IsPositionSerialized: the database is the member
\* snapshot_db_index_, which the loop of IterateBucketsFb does not advance
IsPositionSerialized(S, s, id, b) ==
  IsPositionSerializedAt(S, s, S.snap[s].snapshot_db_index_, id, b)

\* SliceSnapshot::OnMoved
OnMoved(S, s, id, items) ==
  IF S.snap[s].big_value_mu_ THEN Blocked(S)
  ELSE LET F[i \in 0..Len(items)] ==
             IF i = 0 THEN S
             ELSE IF IsPositionSerialized(F[i - 1], s, id, items[i][2][1])
                     /\ ~IsPositionSerialized(F[i - 1], s, id, items[i][1][1])
                  THEN SerializeBucket(F[i - 1], s, id, items[i][2][1])
                  ELSE F[i - 1]
       IN F[Len(items)]

\* DbSlice::CallMovedCallbacks: every registered moved callback, in order
CallMovedCallbacks(S, id, items) ==
  LET F[s \in 0..NumSnaps] ==
        IF s = 0 THEN S
        ELSE IF F[s - 1].snap[s].moved_cb_id_ THEN OnMoved(F[s - 1], s, id, items)
             ELSE F[s - 1]
  IN F[NumSnaps]

\* the body of the loop of OnCbFinishBlocking on the entry at position l
OnCbFinishBump(S, d, l) ==
  LET S1 == IF Len(S.cbs) = 0 THEN S
            ELSE BumpCallbacks(S, d, CVCUponBump(S, d, S.cbs[Len(S.cbs)].ver, l))
  IN CallMovedCallbacks(BumpUp(S1, d, l), d, BumpMoves(S1, d, l))

\* one fetched item <<key_hash, db_index>>: FindFirst, then the bump
OnCbFinishItem(S, item) ==
  IF ~Has(S.prime[item[2]], item[1]) THEN S
  ELSE OnCbFinishBump(S, item[2], LocOf(S.prime[item[2]], item[1]))

\* the loop of OnCbFinishBlocking over the fetched items in the order items
OnCbFinishBlockingLoop(S, items) ==
  LET F[i \in 0..Len(items)] == IF i = 0 THEN S ELSE OnCbFinishItem(F[i - 1], items[i])
  IN F[Len(items)]

\* the items of a set in ascending order
RECURSIVE OrderOf(_)
OrderOf(F) ==
  IF F = {} THEN <<>>
  ELSE LET m == CHOOSE x \in F : \A y \in F : x[2] < y[2] \/ (x[2] = y[2] /\ x[1] <= y[1])
       IN <<m>> \o OrderOf(F \ {m})

\* DbSlice::OnCbFinishBlocking: fetched_items_ is moved out and emptied, then
\* every fetched entry is bumped
OnCbFinishBlocking(S) ==
  IF cache_mode_ THEN OnCbFinishBlockingLoop([S EXCEPT !.fetched = {}], OrderOf(S.fetched))
  ELSE S

\* the end of a transaction callback: the AutoUpdater leaves its scope, then
\* the transaction calls OnCbFinishBlocking
CallbackEnd(R) == [R EXCEPT !.S = OnCbFinishBlocking(AutoUpdaterRun(@))]

\* ---------------------------------------------------------------- channel store
\* GlobMatcher::Matches: * is any string, ? any one character
RECURSIVE GlobMatches(_, _)
GlobMatches(pat, str) ==
  IF pat = <<>> THEN str = <<>>
  ELSE IF Head(pat) = "*"
       THEN GlobMatches(Tail(pat), str) \/ (str # <<>> /\ GlobMatches(pat, Tail(str)))
  ELSE /\ str # <<>>
       /\ Head(pat) = "?" \/ Head(pat) = Head(str)
       /\ GlobMatches(Tail(pat), Tail(str))

\* the objects of the heap: a ChannelStore, a ChannelMap (slots is the set of
\* its pairs <<key, pointer to a SubscribeMap>>) and a SubscribeMap
StoreObj(chans, pats) == [kind |-> "store", channels_ |-> chans, patterns_ |-> pats,
                          slots |-> {}, subs |-> {}]
MapObj(slots) == [kind |-> "map", channels_ |-> 0, patterns_ |-> 0, slots |-> slots, subs |-> {}]
SubObj(subs) == [kind |-> "sub", channels_ |-> 0, patterns_ |-> 0, slots |-> {}, subs |-> subs]

\* ChannelMap::find
Find(m, key) == {p \in m.slots : p[1] = key}
SlotPtr(m, key) == (CHOOSE p \in Find(m, key) : TRUE)[2]

\* the map of a store an updater works on
TargetOf(h, store, pattern) == IF pattern THEN h[store].patterns_ ELSE h[store].channels_

\* an updater that removes a key the map does not hold reads through the end
\* iterator: the behaviour is undefined
ReadsEnd(h, target, to_add, ops) ==
  \E i \in DOMAIN ops : ~to_add /\ Find(h[target], ops[i]) = {}

\* ChannelStoreUpdater::GetTargetMap: is a slot added or removed?  size_read
\* is what it->second->size() == 1 yields on the end iterator
NeedsCopy(h, target, to_add, ops, size_read) ==
  \E i \in DOMAIN ops :
    \/ to_add /\ Find(h[target], ops[i]) = {}
    \/ ~to_add /\ Find(h[target], ops[i]) # {}
               /\ Cardinality(h[SlotPtr(h[target], ops[i])].subs) = 1
    \/ ~to_add /\ Find(h[target], ops[i]) = {} /\ size_read

\* the updater's view while it holds the mutex: the heap, its freelist_, and
\* garbage, the address it->second.Get() yields on the end iterator (0: none
\* that is the address of an object)
\* ChannelStoreUpdater::Modify that leaves the slot of the last subscriber
ModifyKeepSlot(W, target, to_add, cntx, key) ==
  LET m == W.heap[target]
  IN IF ~to_add /\ Find(m, key) = {}
     THEN [W EXCEPT !.freelist = @ \cup ({W.garbage} \ {0})]
     ELSE IF to_add /\ Find(m, key) = {}
     THEN [W EXCEPT !.heap = [Append(W.heap, SubObj({cntx})) EXCEPT
                                 ![target].slots = @ \cup {<<key, Len(W.heap) + 1>>}]]
     ELSE LET old == SlotPtr(m, key)
              replacement == SubObj(IF to_add THEN W.heap[old].subs \cup {cntx}
                                    ELSE W.heap[old].subs \ {cntx})
          IN [W EXCEPT !.freelist = @ \cup {old},
                       !.heap = [Append(W.heap, replacement) EXCEPT
                                   ![target].slots = (@ \ {<<key, old>>})
                                                     \cup {<<key, Len(W.heap) + 1>>}]]

\* ChannelStoreUpdater::Modify
Modify(W, target, to_add, cntx, key) ==
  LET m == W.heap[target]
  IN IF ~to_add /\ Find(m, key) = {}
     THEN [W EXCEPT !.freelist = @ \cup ({W.garbage} \ {0})]
     ELSE IF to_add /\ Find(m, key) = {}
     THEN [W EXCEPT !.heap = [Append(W.heap, SubObj({cntx})) EXCEPT
                                 ![target].slots = @ \cup {<<key, Len(W.heap) + 1>>}]]
     ELSE IF ~to_add /\ Cardinality(W.heap[SlotPtr(m, key)].subs) = 1
     THEN [W EXCEPT !.freelist = @ \cup {SlotPtr(m, key)},
                    !.heap[target].slots = @ \ {<<key, SlotPtr(m, key)>>}]
     ELSE LET old == SlotPtr(m, key)
              replacement == SubObj(IF to_add THEN W.heap[old].subs \cup {cntx}
                                    ELSE W.heap[old].subs \ {cntx})
          IN [W EXCEPT !.freelist = @ \cup {old},
                       !.heap = [Append(W.heap, replacement) EXCEPT
                                   ![target].slots = (@ \ {<<key, old>>})
                                                     \cup {<<key, Len(W.heap) + 1>>}]]

\* the loop of Apply over ops_
ModifyAll(W, target, to_add, cntx, ops) ==
  LET F[i \in 0..Len(ops)] ==
        IF i = 0 THEN W ELSE Modify(F[i - 1], target, to_add, cntx, ops[i])
  IN F[Len(ops)]

\* the elements of a set of numbers in ascending order
RECURSIVE Ascending(_)
Ascending(A) ==
  IF A = {} THEN <<>>
  ELSE LET m == CHOOSE x \in A : \A y \in A : x <= y IN <<m>> \o Ascending(A \ {m})

\* ChannelStore::Fill: one Subscriber for every connection of the SubscribeMap
Fill(sm, pattern, out) ==
  out \o [i \in 1..Cardinality(sm.subs) |->
            [conn |-> Ascending(sm.subs)[i], thread |-> ThreadOf(Ascending(sm.subs)[i]),
             pattern |-> pattern]]

\* the loop of FetchSubscribers over patterns_
RECURSIVE FillPatterns(_, _, _, _)
FillPatterns(h, slots, channel, out) ==
  IF slots = {} THEN out
  ELSE LET p == CHOOSE x \in slots : TRUE
       IN FillPatterns(h, slots \ {p}, channel,
                       IF GlobMatches(p[1], channel) THEN Fill(h[p[2]], p[1], out) ELSE out)

\* a sort that leaves the subscribers as Fill wrote them
Unsorted(q) == q

\* sort(res.begin(), res.end(), Subscriber::ByThread)
RECURSIVE SortByThread(_)
SortByThread(q) ==
  IF q = <<>> THEN <<>>
  ELSE LET m == CHOOSE i \in DOMAIN q : \A j \in DOMAIN q : q[i].thread <= q[j].thread
       IN <<q[m]>> \o SortByThread([j \in 1..(Len(q) - 1) |-> IF j < m THEN q[j] ELSE q[j + 1]])

\* ChannelStore::FetchSubscribers on the store at address store
FetchSubscribers(h, store, channel) ==
  LET chans == h[h[store].channels_]
      exact == IF Find(chans, channel) = {} THEN <<>>
               ELSE Fill(h[SlotPtr(chans, channel)], <<>>, <<>>)
  IN SortByThread(FillPatterns(h, h[h[store].patterns_].slots, channel, exact))

\* the objects FetchSubscribers reads
Accessed(h, store, channel) ==
  {store, h[store].channels_, h[store].patterns_}
  \cup {p[2] : p \in Find(h[h[store].channels_], channel)}
  \cup {p[2] : p \in {x \in h[h[store].patterns_].slots : GlobMatches(x[1], channel)}}

IdleUpdater == [pc |-> "idle", pattern |-> FALSE, to_add |-> FALSE, ops |-> <<>>,
                store |-> 0, copied |-> FALSE, freelist |-> {}, pending |-> {}]
IdlePublisher == [pc |-> "idle", channel |-> <<>>, held |-> {}, subs |-> <<>>,
                  ret |-> -1, sent |-> 0, todo |-> {}, calls |-> 0, closed |-> FALSE]

\* the channel store after the constructor of ChannelStore
InitChannelStore ==
  /\ cs_heap = <<MapObj({}), MapObj({}), StoreObj(1, 2)>>
  /\ cs_freed = {}
  /\ most_recent = 3
  /\ update_mu = 0
  /\ tl_store = [t \in Threads |-> 3]
  /\ updater = [c \in Updaters |-> IdleUpdater]
  /\ publisher = [t \in Threads |-> IdlePublisher]
  /\ subscribe_info = [c \in Conns |-> [channels |-> {}, patterns |-> {}]]
  /\ conn_open = [c \in Conns |-> TRUE]

\* ---------------------------------------------------------------- MSET
\* the shard that owns a key
ShardOf(k) == k % NumShards

\* Transaction::GetShardArgs: the pairs of the command whose key the shard
\* owns, in the order of the command
RECURSIVE GetShardArgs(_, _)
GetShardArgs(args, sh) ==
  IF args = <<>> THEN <<>>
  ELSE IF ShardOf(Head(args)[1]) = sh THEN <<Head(args)>> \o GetShardArgs(Tail(args), sh)
  ELSE GetShardArgs(Tail(args), sh)

\* Transaction::GetUniqueShardCnt: the shards the command has arguments for
UniqueShards(args) == {sh \in Shards : GetShardArgs(args, sh) # <<>>}

\* SetCmd::Set with default parameters on a master in store mode, for a SetCmd
\* with manual_journal_ = false: the status is that of AddOrFind, which
\* rejects a new key when the budget is below its length; PostEdit records
\* nothing. W is [db, budget].
ShardSet(W, k, v) ==
  IF W.db[k] # 0
  THEN [db |-> [W.db EXCEPT ![k] = v],
        budget |-> W.budget + ValMallocUsed(W.db[k]) - ValMallocUsed(v), status |-> "OK"]
  ELSE IF W.budget - KeyLen(k) < 0
  THEN [db |-> W.db, budget |-> W.budget, status |-> "OUT_OF_MEMORY"]
  ELSE [db |-> [W.db EXCEPT ![k] = v],
        budget |-> W.budget - KeyMallocUsed(k) - ValMallocUsed(v), status |-> "OK"]

\* the loop of OpMSet over the pairs from position i on: it stops at the first
\* status that is not OK; stored counts the pairs that were set, and set is
\* history: the pairs for which Set returned OK
RECURSIVE OpMSetLoop(_, _, _, _)
OpMSetLoop(W, args, i, set) ==
  IF i > Len(args)
  THEN [db |-> W.db, budget |-> W.budget, result |-> "OK", stored |-> i - 1, set |-> set]
  ELSE LET R == ShardSet(W, args[i][1], args[i][2])
       IN IF R.status # "OK"
          THEN [db |-> R.db, budget |-> R.budget, result |-> R.status, stored |-> i - 1,
                set |-> set]
          ELSE OpMSetLoop(R, args, i + 1, Append(set, args[i]))

\* an OpMSet that records all its arguments whatever was stored
OpMSetJournalAll(journal, args, stored, shard_cnt) ==
  Append(journal, [cmd |-> "MSET", args |-> args, shard_cnt |-> shard_cnt])

\* OpMSet after the loop: the entry of the journal
OpMSetJournal(journal, args, stored, shard_cnt) ==
  IF stored = Len(args)
  THEN Append(journal, [cmd |-> "MSET", args |-> args, shard_cnt |-> shard_cnt])
  ELSE IF stored > 0
  THEN Append(journal, [cmd |-> "MSET", args |-> SubSeq(args, 1, stored),
                        shard_cnt |-> shard_cnt])
  ELSE journal

\* AggregateStatus keeps the first status that is not OK
Aggregate(result, status) == IF result = "OK" THEN status ELSE result

IdleTx == [pc |-> "idle", args |-> <<>>, pending |-> {}, result |-> "OK", reply |-> "none",
           journal |-> FALSE, ran |-> [sh \in Shards |-> <<>>],
           base |-> [sh \in Shards |-> 0], count |-> 0]

\* empty shards with the memory budgets and the journal switch given
InitShards(budgets, journals) ==
  /\ shard_db = [sh \in Shards |-> [k \in MSetKeys |-> 0]]
  /\ shard_budget \in [Shards -> budgets]
  /\ shard_journal = [sh \in Shards |-> <<>>]
  /\ mset_tx \in {[IdleTx EXCEPT !.journal = j] : j \in journals}

\* ---------------------------------------------------------------- AutoUpdater objects
\* AutoUpdater::fields_ after Cancel or the default constructor; acq is
\* history: the acquisition the fields come from
NoFields == [db_slice |-> FALSE, key |-> 0, orig_heap_size |-> 0, acq |-> 0]

\* U is [au, tb, dirty, hist]: the objects, the table, watched_dirty and the history

\* DbSlice::AutoUpdater::Cancel
UpdaterCancel(U, i) == [U EXCEPT !.au[i].fields = NoFields]

\* DbSlice::QueueInvalidationTrackingMessageAtomic: the clients that track the
\* key move to pending_send_map_
QueueInvalidationTrackingMessageAtomic(tb, key) ==
  IF key \notin tb.client_tracking_map_ THEN tb
  ELSE [tb EXCEPT !.client_tracking_map_ = @ \ {key}, !.pending_send_map_ = @ \cup {key}]

\* DbSlice::PostUpdate: the watchers of the key are marked dirty and its watch
\* entry is dropped, events_.update grows, the invalidations are queued
PostUpdate(U, key) ==
  [U EXCEPT !.dirty = [c \in Conns |-> IF c \in U.tb.watched_keys[key] THEN TRUE ELSE @[c]],
            !.hist.due = @ \cup U.tb.watched_keys[key],
            !.tb = QueueInvalidationTrackingMessageAtomic(
                     [@ EXCEPT !.watched_keys[key] = {}, !.update = @ + 1], key)]

\* the release of object i: the heap delta, PostUpdate, and the history
UpdaterRelease(U, i) ==
  LET f == U.au[i].fields
  IN PostUpdate([U EXCEPT !.tb.obj_memory_usage = @ + U.tb.heap[f.key] - f.orig_heap_size,
                          !.hist.runs[f.acq] = @ + 1],
                f.key)

\* DbSlice::AutoUpdater::Run
UpdaterRun(U, i) ==
  IF ~U.au[i].fields.db_slice THEN U
  ELSE UpdaterCancel(UpdaterRelease(U, i), i)

\* a move assignment that leaves the fields with the source as well
UpdaterMoveAssignCopy(U, i, j) ==
  LET R == UpdaterRun(U, i) IN [R EXCEPT !.au[i].fields = R.au[j].fields]

\* DbSlice::AutoUpdater::operator=(AutoUpdater&& o): this is i, o is j
UpdaterMoveAssign(U, i, j) ==
  LET R == UpdaterRun(U, i)
  IN UpdaterCancel([R EXCEPT !.au[i].fields = R.au[j].fields], j)

\* DbSlice::AutoUpdater::ReduceHeapUsage
UpdaterReduceHeapUsage(U, i) ==
  [U EXCEPT !.tb.obj_memory_usage = @ - U.au[i].fields.orig_heap_size,
            !.au[i].fields.orig_heap_size = 0]

InitUpdaters ==
  /\ updaters = [i \in UpdaterIds |-> [scope |-> FALSE, fields |-> NoFields]]
  /\ upd_table = [heap |-> [k \in UpdKeys |-> 0], obj_memory_usage |-> 0, update |-> 0,
                  watched_keys |-> [k \in UpdKeys |-> {}], client_tracking_map_ |-> {},
                  pending_send_map_ |-> {}]
  /\ watched_dirty = [c \in Conns |-> FALSE]
  /\ upd_hist = [next |-> 1, runs |-> [a \in Acquisitions |-> 0], cancelled |-> {},
                 overlap |-> FALSE, due |-> {}]

\* ---------------------------------------------------------------- asynchronous deletion
\* AsyncDeleter (db_slice.cc 244-307): the dense sets whose clearing was not
\* finished by the deletion are kept in a list, and the idle task of the
\* thread clears them in chunks.
\* dense_sets[s] is [st, buckets, cleared, frees]: st is "none" (no such set),
\* "pending" (detached from its value, not freed) or "freed"; cleared counts
\* the buckets cleared from the first one on; frees counts the calls of
\* DeleteMR for the set.
NumDenseSets == 2
MaxCapacityLog == 2
MaxIdleTasks == 2
SetIds == 1..NumDenseSets
\* the bucket counts of the sets that are deleted
BucketCounts == {512 * (2 ^ i) : i \in 0..MaxCapacityLog}
\* AsyncDeleter::kClearStepSize
kClearStepSize == 1024
\* kClearStepSize of PerformDeletionAtomic
kClearStepSizeDeletion == 512
NoSet == [st |-> "none", buckets |-> 0, cleared |-> 0, frees |-> 0]

\* DenseSet::ClearStep(cursor, count): clears the buckets from cursor on, at
\* most count of them, and returns the next bucket to clear
ClearStepNext(ds, cursor, count) ==
  IF cursor + count < ds.buckets THEN cursor + count ELSE ds.buckets

ClearStep(ds, cursor, count) ==
  IF cursor <= ds.cleared /\ ClearStepNext(ds, cursor, count) > ds.cleared
  THEN [ds EXCEPT !.cleared = ClearStepNext(ds, cursor, count)]
  ELSE ds

\* CompactObj::DeleteMR<DenseSet>
DeleteMR(ds) == [ds EXCEPT !.st = "freed", !.frees = @ + 1]

\* AsyncDeleter::EnqueDeletion on the deleter A = [head, tasks]: the node goes
\* to the front of the list; the idle task is registered when the list was empty
EnqueDeletionWhenBusy(A, next, s) ==
  [head |-> <<[ds |-> s, cursor |-> next]>> \o A.head,
   tasks |-> IF A.head # <<>> THEN A.tasks + 1 ELSE A.tasks]

EnqueDeletion(A, next, s) ==
  [head |-> <<[ds |-> s, cursor |-> next]>> \o A.head,
   tasks |-> IF A.head = <<>> THEN A.tasks + 1 ELSE A.tasks]

InitDeleter ==
  /\ head_ = <<>>
  /\ idle_tasks = 0
  /\ dense_sets = [s \in SetIds |-> NoSet]
  /\ deleting = TRUE

\* ---------------------------------------------------------------- delayed entries
\* PushSerialized (snapshot.cc 370-401) and SerializeExternal (403-410).  A
\* delayed entry is the number of its enqueueing; a fiber in PushSerialized is
\* at "flush" (inside the first FlushSerialized), "await" (at the Get of the
\* entry it took) or "last" (inside the second FlushSerialized).  prev is
\* history: the entry the call took before the one it holds; added is
\* history: an entry was enqueued since the call began.
NumPushFibers == 2
MaxEnqueued == 3
MaxBuffered == 2
PushFibers == 1..NumPushFibers
\* SliceSnapshot.cc: kMinBlobSize = 8_KB
kMinBlobSize == 8192
\* the number of delayed entries that makes PushSerialized(false) go on
kDelayedEntries == 32
\* the bytes SaveEntry adds to the serializer for one entry
EntryBytes == 4096
IdlePush == [pc |-> "idle", force |-> FALSE, entry |-> 0, serialized |-> 0,
             added |-> FALSE, prev |-> 0, ret |-> "none"]

\* the test at the head of PushSerialized: TRUE when the call returns at once
PushSerializedSkips(force, len, delayed) ==
  ~force /\ len < kMinBlobSize /\ Len(delayed) < kDelayedEntries

\* delayed_entries_.front() and pop of the first entry
TakeFront(delayed) == [entry |-> Head(delayed), rest |-> Tail(delayed)]

\* delayed_entries_.back() and pop_back()
TakeBack(delayed) ==
  [entry |-> delayed[Len(delayed)], rest |-> SubSeq(delayed, 1, Len(delayed) - 1)]

\* the snapshot has enqueued n delayed entries and has taken none of them yet
InitPush(prefills) ==
  /\ \E n \in prefills :
       /\ delayed_entries_ = [i \in 1..n |-> i]
       /\ next_entry = n + 1
  /\ serialized_len = 0
  /\ push_fiber = [f \in PushFibers |-> IdlePush]
  /\ saved = {}

\* ---------------------------------------------------------------- serialization latch
\* LocalLatch is not among the sources: lock() adds one to the counter,
\* unlock() takes one off, and Wait() returns when the counter is zero.  A
\* fiber is at "idle", "dispatch" (inside CallChangeCallbacks: limit and pos
\* are its locals), "serialize" (inside the latch guard of BucketSaveCb) or
\* "wait" (inside the Wait of UnregisterOnChange for callback id); invoked is
\* history: the callbacks the dispatch has invoked; since is history:
\* version_ when the dispatch began.
NumLatchFibers == 3
LatchFibers == 1..NumLatchFibers
IdleLatchFiber == [pc |-> "idle", limit |-> 0, pos |-> 0, id |-> 0, invoked |-> <<>>, since |-> 0]

\* LocalLatch::Wait returns
LatchFree(count) == count = 0

\* the test of the loop of CallChangeCallbacks against the size of the list as it is
DispatchDoneLive(fb, cbs) == fb.pos > Len(cbs)

\* the test of the loop of CallChangeCallbacks: limit is the size of change_cb_
\* when the dispatch began
DispatchDone(fb, cbs) == fb.pos > fb.limit

InitLatch ==
  /\ serialization_latch_ = 0
  /\ latch_fiber = [f \in LatchFibers |-> IdleLatchFiber]

\* ---------------------------------------------------------------- typed finds
\* the types of the values, and the absent optional<unsigned> of a find
ObjTypes == {"OBJ_STRING", "OBJ_LIST"}
NoType == "nullopt"

\* a freshly constructed CompactObj is a string
InitTypes == obj_type = [d \in Dbs |-> [k \in Keys |-> "OBJ_STRING"]]

\* DbSlice::FindInternal with req_obj_type: the type is tested on the entry
\* that Find returned, before its expiry state is looked at
FindInternalTyped(S, d, k, req_obj_type) ==
  IF ~Has(S.prime[d], k) THEN Res(S, "KEY_NOTFOUND")
  ELSE IF req_obj_type # NoType /\ obj_type[d][k] # req_obj_type THEN Res(S, "WRONG_TYPE")
  ELSE FindInternal(S, d, k)

\* ---------------------------------------------------------------- INCRBY
\* int64_t and long long, at a width of IntBits bits
IntBits == 4
LLONG_MIN == -(2 ^ (IntBits - 1))
LLONG_MAX == (2 ^ (IntBits - 1)) - 1
Int64 == LLONG_MIN..LLONG_MAX

\* the value an arithmetic result has when it is kept in an int64_t
Wrap64(x) == ((x - LLONG_MIN) % (2 ^ IntBits)) + LLONG_MIN

\* what the key of the command holds: nothing, a string that TryGetInt reads
\* as the integer n, another string, or an object that is no string
Missing == [t |-> "none", n |-> 0]
IntString(n) == [t |-> "int", n |-> n]
IncrValues == {Missing, [t |-> "str", n |-> 0], [t |-> "list", n |-> 0]}
                \cup {IntString(n) : n \in Int64}

NoIncrReply == [cmd |-> "none", arg |-> 0, skip_on_missing |-> FALSE, no_memory |-> FALSE,
                prev |-> Missing, status |-> "OK", value |-> 0]

InitIncrBy(values) ==
  /\ incr_value \in values
  /\ incr_reply = NoIncrReply

\* the overflow test of OpIncrBy that looks at positive operands only
OutOfRangeAbove(prev, incr) == incr > 0 /\ prev > 0 /\ incr > (LLONG_MAX - prev)

\* the overflow test of OpIncrBy
OutOfRange(prev, incr) ==
  \/ (incr < 0 /\ prev < 0 /\ incr < (LLONG_MIN - prev))
  \/ (incr > 0 /\ prev > 0 /\ incr > (LLONG_MAX - prev))

\* OpIncrBy on a key that FindMutable did not find; no_memory: AddNew fails
OpIncrByMissing(incr, skip_on_missing, no_memory) ==
  IF skip_on_missing THEN [stored |-> Missing, status |-> "KEY_NOTFOUND", value |-> 0]
  ELSE IF no_memory THEN [stored |-> Missing, status |-> "OUT_OF_MEMORY", value |-> 0]
  ELSE [stored |-> IntString(incr), status |-> "OK", value |-> incr]

\* OpIncrBy: the value stored afterwards, the status and the value returned
OpIncrBy(stored, incr, skip_on_missing, no_memory) ==
  IF stored.t = "none" THEN OpIncrByMissing(incr, skip_on_missing, no_memory)
  ELSE IF stored.t = "list" THEN [stored |-> stored, status |-> "WRONG_TYPE", value |-> 0]
  ELSE IF stored.t # "int" THEN [stored |-> stored, status |-> "INVALID_VALUE", value |-> 0]
  ELSE IF OutOfRange(stored.n, incr)
       THEN [stored |-> stored, status |-> "OUT_OF_RANGE", value |-> 0]
  ELSE [stored |-> IntString(Wrap64(stored.n + incr)), status |-> "OK",
        value |-> Wrap64(stored.n + incr)]

\* StringFamily::DecrBy: INT64_MIN has no negation and is answered with
\* kIncrOverflow, the reply to OUT_OF_RANGE, before the key is looked at
DecrByOp(stored, val, skip_on_missing, no_memory) ==
  IF val = LLONG_MIN THEN [stored |-> stored, status |-> "OUT_OF_RANGE", value |-> 0]
  ELSE OpIncrBy(stored, Wrap64(-val), skip_on_missing, no_memory)

\* ---------------------------------------------------------------- StringSet
NumMembers == 2
MaxSpan == 3
MaxTtl == 1
MaxSetTime == 2
\* the width of uint32_t in the model, and the ttl_sec that stands for no TTL
TtlBits == 3
UINT32_MAX == (2 ^ TtlBits) - 1
\* the longest batch AddMany hands to AddBatch
kMaxBatchLen == 2

Members == 1..NumMembers
Spans == UNION {[1..n -> Members] : n \in 1..MaxSpan}
TtlArgs == (0..MaxTtl) \cup {UINT32_MAX}

\* a member: in the set or not, with the TTL bit and the time stored after it
NoMember == [present |-> FALSE, has_ttl |-> FALSE, at |-> 0]
NoSetReply == [op |-> "none", span |-> <<>>, ttl_sec |-> UINT32_MAX, keepttl |-> FALSE, res |-> 0,
               updated |-> {}]

\* history: the members of set that were present and are changed in after
UpdatedMembers(set, after) == {m \in Members : set[m].present /\ after[m] # set[m]}
UnsetFlag == [set |-> FALSE, v |-> FALSE]

InitStringSet(flags) ==
  /\ set_members = [m \in Members |-> NoMember]
  /\ set_time = 0
  /\ legacy_saddex_keepttl \in flags
  /\ update_ttl = UnsetFlag
  /\ set_reply = NoSetReply

\* StringSet::MakeSetSds and AddUnique: the new member, its time in uint32_t
MakeSetSds(time_now, ttl_sec) ==
  IF ttl_sec # UINT32_MAX
  THEN [present |-> TRUE, has_ttl |-> TRUE, at |-> (time_now + ttl_sec) % (2 ^ TtlBits)]
  ELSE [present |-> TRUE, has_ttl |-> FALSE, at |-> 0]

\* StringSet::ObjUpdateExpireTime
ObjUpdateExpireTime(member, time_now, ttl_sec) ==
  [member EXCEPT !.has_ttl = TRUE, !.at = (time_now + ttl_sec) % (2 ^ TtlBits)]

\* the thread_local update_ttl of AddBatch: read from the flag by the first call
UpdateTtlFlag(cached) ==
  IF cached.set THEN cached ELSE [set |-> TRUE, v |-> ~legacy_saddex_keepttl]

\* the test of AddBatch for a member that is present, without the flag
UpdatesTtlAnyFlag(update, ttl_sec, keepttl) == ttl_sec # UINT32_MAX /\ ~keepttl

\* the test of AddBatch for a member that is present
UpdatesTtl(update, ttl_sec, keepttl) == update /\ ttl_sec # UINT32_MAX /\ ~keepttl

\* one round of the second loop of AddBatch on the set and the count A
AddBatchMember(A, member, time_now, ttl_sec, keepttl, update) ==
  IF ~A.set[member].present
  THEN [set |-> [A.set EXCEPT ![member] = MakeSetSds(time_now, ttl_sec)], res |-> A.res + 1]
  ELSE IF UpdatesTtl(update, ttl_sec, keepttl)
       THEN [A EXCEPT !.set[member] = ObjUpdateExpireTime(@, time_now, ttl_sec)]
  ELSE A

RECURSIVE AddBatchFrom(_, _, _, _, _, _, _)
AddBatchFrom(A, span, i, time_now, ttl_sec, keepttl, update) ==
  IF i > Len(span) THEN A
  ELSE AddBatchFrom(AddBatchMember(A, span[i], time_now, ttl_sec, keepttl, update),
                    span, i + 1, time_now, ttl_sec, keepttl, update)

\* StringSet::AddBatch: the set afterwards and the number of members added
AddBatch(set, span, time_now, ttl_sec, keepttl, update) ==
  AddBatchFrom([set |-> set, res |-> 0], span, 1, time_now, ttl_sec, keepttl, update)

\* StringSet::AddMany: batches of kMaxBatchLen, then the rest
RECURSIVE AddMany(_, _, _, _, _, _)
AddMany(A, span, time_now, ttl_sec, keepttl, update) ==
  IF Len(span) = 0 THEN A
  ELSE LET n == IF Len(span) >= kMaxBatchLen THEN kMaxBatchLen ELSE Len(span)
           B == AddBatch(A.set, SubSeq(span, 1, n), time_now, ttl_sec, keepttl, update)
       IN AddMany([set |-> B.set, res |-> A.res + B.res], SubSeq(span, n + 1, Len(span)),
                  time_now, ttl_sec, keepttl, update)

\* StringSet::Add
StringSetAdd(set, member, time_now, ttl_sec) ==
  IF set[member].present THEN [set |-> set, res |-> 0]
  ELSE [set |-> [set EXCEPT ![member] = MakeSetSds(time_now, ttl_sec)], res |-> 1]

\* ---------------------------------------------------------------- initial state
\* the state after construction, but for the mode and the memory budget, which
\* each specification sets
InitSlice ==
  /\ prime = [d \in Tables |-> EmptyPrime]
  /\ bver = [d \in Tables |-> NoVersions]
  /\ expire = [d \in Tables |-> EmptyExpire]
  /\ trans_locks = [d \in Dbs |-> {}]
  /\ version_ = 1
  /\ change_cb_ = <<>>
  /\ entries_count_ = 0
  /\ events_ = [insertion_rejections |-> 0, evicted_keys |-> 0, expired_keys |-> 0]
  /\ shard_lock = FALSE
  /\ expire_cursor = [d \in Dbs |-> 0]
  /\ now = 0
  /\ snap = [s \in Snaps |-> IdleSnap]
  /\ flush_slots = IdleFlush
  /\ obj_memory_usage = [d \in Tables |-> 0]
  /\ fetched_items_ = {}
  /\ expired_keys_events_ = [d \in Tables |-> <<>>]
  /\ keyevent_sent = <<>>
  /\ rec_id_ = 1
  /\ last_pushed_id_ = 0
  /\ serializer_ = <<>>
  /\ consumer_ = <<>>
  /\ flush_fiber = [f \in Fibers |-> IdleFiber]
  /\ journal_buf = [first |-> 1, lsn |-> 1]
  /\ incremental = IdleIncremental
  /\ InitChannelStore
  /\ InitUpdaters
  /\ InitTypes
  /\ InitLatch
  /\ InitDeleter

\* the flag notify_keyspace_events is empty by default
InitTables ==
  /\ InitSlice
  /\ InitShards({80}, {FALSE})
  /\ InitPush({0})
  /\ InitIncrBy({Missing})
  /\ InitStringSet({FALSE})
  /\ expired_keys_events_recording_ = FALSE

\* a master that serves commands
InitMaster ==
  /\ is_replica = FALSE
  /\ loading = FALSE
  /\ expire_allowed_ = TRUE

\* ---------------------------------------------------------------- actions
\* history of FlushSlotsFb: the keys the operation put into database 0 while
\* the fiber runs
AddedSinceFlushSlots(S) ==
  IF S.fs.pc # "running" THEN S.fs
  ELSE [S.fs EXCEPT !.added = @ \cup {S.tr.log[i].v : i \in {j \in 1..Len(S.tr.log) :
                                        S.tr.log[j].t = "mut" /\ S.tr.log[j].d = 0}}]

\* the state after an operation; an operation that would split a segment, run
\* past the bounds of the model or abort the process is not a step, and an
\* operation that has to wait for a mutex is not a step while the mutex is held
Commit(R) ==
  /\ R.status \notin {"GROW", "ABORT"}
  /\ ~R.S.tr.foreign
  /\ ~R.S.tr.blocked
  /\ R.S.version <= MaxVersion
  /\ \A s \in Snaps : Len(R.S.snap[s].journal) <= MaxJournal
  /\ \A c \in DOMAIN R.S.events : R.S.events[c] <= MaxEvents
  /\ prime' = R.S.prime
  /\ bver' = R.S.bver
  /\ expire' = R.S.expire
  /\ version_' = R.S.version
  /\ change_cb_' = R.S.cbs
  /\ memory_budget_' = R.S.budget
  /\ entries_count_' = R.S.entries
  /\ events_' = R.S.events
  /\ expire_cursor' = R.S.cursor
  /\ snap' = R.S.snap
  /\ flush_slots' = AddedSinceFlushSlots(R.S)
  /\ obj_memory_usage' = R.S.obj
  /\ fetched_items_' = R.S.fetched
  /\ expired_keys_events_' = R.S.expired_keys_events
  /\ keyevent_sent' = R.S.sent
  /\ UNCHANGED <<trans_locks, cache_mode_, is_replica, loading, expire_allowed_, shard_lock, now,
                 expired_keys_events_recording_, rest_vars>>

\* the state after an operation that leaves the types T of the values
CommitOfType(R, T) ==
  /\ R.status \notin {"GROW", "ABORT"}
  /\ ~R.S.tr.foreign
  /\ ~R.S.tr.blocked
  /\ R.S.version <= MaxVersion
  /\ \A s \in Snaps : Len(R.S.snap[s].journal) <= MaxJournal
  /\ \A c \in DOMAIN R.S.events : R.S.events[c] <= MaxEvents
  /\ obj_type' = T
  /\ prime' = R.S.prime
  /\ bver' = R.S.bver
  /\ expire' = R.S.expire
  /\ version_' = R.S.version
  /\ change_cb_' = R.S.cbs
  /\ memory_budget_' = R.S.budget
  /\ entries_count_' = R.S.entries
  /\ events_' = R.S.events
  /\ expire_cursor' = R.S.cursor
  /\ snap' = R.S.snap
  /\ flush_slots' = AddedSinceFlushSlots(R.S)
  /\ obj_memory_usage' = R.S.obj
  /\ fetched_items_' = R.S.fetched
  /\ expired_keys_events_' = R.S.expired_keys_events
  /\ keyevent_sent' = R.S.sent
  /\ UNCHANGED <<trans_locks, cache_mode_, is_replica, loading, expire_allowed_, shard_lock, now,
                 expired_keys_events_recording_, not_type_rest_vars>>

FindReadOnly(d, k) == Commit(CallbackEnd(FindInternal(Cur, d, k)))

FindMutable(d, k) == Commit(CallbackEnd(FindMutableInternal(Cur, d, k)))

AddOrFind(d, k) == Commit(CallbackEnd(AddOrFindInternal(Cur, d, k)))

\* DbSlice::AddNew: the caller guarantees that the key is absent
AddNew(d, k, v, at) ==
  /\ ~Has(prime[d], k)
  /\ Commit(CallbackEnd(AddOrUpdateInternal(Cur, d, k, v, at, FALSE)))

AddOrUpdate(d, k, v, at) ==
  Commit(CallbackEnd(AddOrUpdateInternal(Cur, d, k, v, at, TRUE)))

Set(d, k, v, params) == Commit(CallbackEnd(SetCmdSet(Cur, d, k, v, params)))

Expire(d, k, params) == Commit(CallbackEnd(FindKeyAndSetExpiry(Cur, d, k, params)))

\* DbSlice::Del on a valid iterator
Del(d, k) ==
  /\ Has(prime[d], k)
  /\ Commit(CallbackEnd(Res(PerformDeletion(Cur, d, k), "OK")))

ExpireSweep(d, count) == Commit(Res(DeleteExpiredStep(Cur, d, count).S, "OK"))

\* the heartbeat's eviction step; it runs on a master only
Heartbeat(d, goal, max_eviction_per_hb) ==
  /\ ~is_replica
  /\ Commit(Res(FreeMemWithEvictionStepAtomic(Cur, d, goal, max_eviction_per_hb).S, "OK"))

FlushDb(d) ==
  /\ \A s \in Snaps : snap[s].pc # "running"
  /\ Commit(Res(FlushDbIndex(Cur, d), "OK"))

FlushSlotsStart(slot_ids) ==
  /\ flush_slots.pc = "idle"
  /\ Commit(Res(FlushSlotsBegin(Cur, slot_ids), "OK"))

FlushSlotsStep ==
  /\ flush_slots.pc = "running"
  /\ flush_slots.cursor <= NumBuckets
  /\ Commit(Res(FlushSlotsTraverse(Cur), "OK"))

FlushSlotsFinish ==
  /\ flush_slots.pc = "running"
  /\ flush_slots.cursor > NumBuckets
  /\ Commit(Res(FlushSlotsEnd(Cur), "OK"))

\* the transaction scheduler takes and releases key locks and the shard lock
Acquire(d, k) ==
  /\ k \notin trans_locks[d]
  /\ trans_locks' = [trans_locks EXCEPT ![d] = @ \cup {k}]
  /\ UNCHANGED <<prime, bver, expire, version_, change_cb_, memory_budget_, entries_count_,
                 events_, cache_mode_, is_replica, loading, expire_allowed_, shard_lock,
                 expire_cursor, now, snap, flush_slots, obj_memory_usage, fetched_items_, other_vars>>

Release(d, k) ==
  /\ k \in trans_locks[d]
  /\ trans_locks' = [trans_locks EXCEPT ![d] = @ \ {k}]
  /\ UNCHANGED <<prime, bver, expire, version_, change_cb_, memory_budget_, entries_count_,
                 events_, cache_mode_, is_replica, loading, expire_allowed_, shard_lock,
                 expire_cursor, now, snap, flush_slots, obj_memory_usage, fetched_items_, other_vars>>

ShardLock ==
  /\ shard_lock' = ~shard_lock
  /\ UNCHANGED <<prime, bver, expire, trans_locks, version_, change_cb_, memory_budget_,
                 entries_count_, events_, cache_mode_, is_replica, loading, expire_allowed_,
                 expire_cursor, now, snap, flush_slots, obj_memory_usage, fetched_items_, other_vars>>

Tick ==
  /\ now < MaxTime
  /\ now' = now + 1
  /\ UNCHANGED <<prime, bver, expire, trans_locks, version_, change_cb_, memory_budget_,
                 entries_count_, events_, cache_mode_, is_replica, loading, expire_allowed_,
                 shard_lock, expire_cursor, snap, flush_slots, obj_memory_usage,
                 fetched_items_, other_vars>>

\* ---------------------------------------------------------------- snapshot actions
Entries(d) == {<<d, k, EntryOf(prime[d], k).val>> : k \in KeysOf(prime[d])}

\* SliceSnapshot::Start; pit is use_snapshot_version_
SnapStart(s, pit) ==
  /\ snap[s].pc = "idle"
  /\ LET S1 == RegisterOnChange(Cur, s)
         S2 == [S1 EXCEPT !.snap[s] = [IdleSnap EXCEPT !.pc = "running", !.ver = Cur.version,
                                                       !.pit = pit,
                                                       !.start = UNION {Entries(d) : d \in Dbs}]]
     IN Commit(Res(S2, "OK"))

\* one TraverseBuckets call of SliceSnapshot::IterateBucketsFb
SnapStep(s) ==
  /\ snap[s].pc = "running"
  /\ snap[s].dbi < NumDbs
  /\ snap[s].cntx_running
  /\ LET d == snap[s].dbi
         b == snap[s].cursor
         S1 == BucketSaveCb(Cur, s, d, b)
         S2 == IF b = NumBuckets
               THEN [S1 EXCEPT !.snap[s].cursor = 0, !.snap[s].dbi = d + 1]
               ELSE [S1 EXCEPT !.snap[s].cursor = b + 1]
     IN Commit(Res(S2, "OK"))

\* SliceSnapshot::Start with stream_journal: the snapshot registers with the
\* journal; pit is the flag point_in_time_snapshot
SnapStartStreaming(s, pit) ==
  /\ snap[s].pc = "idle"
  /\ LET S1 == RegisterOnChange(Cur, s)
         S2 == [S1 EXCEPT !.snap[s] = [IdleSnap EXCEPT !.pc = "running", !.ver = Cur.version,
                                                       !.pit = pit, !.stream_journal = TRUE,
                                                       !.journal_cb_id_ = TRUE,
                                                       !.journal_hook = TRUE,
                                                       !.moved_cb_id_ = ~pit,
                                                       !.start = UNION {Entries(d) : d \in Dbs}]]
     IN Commit(Res(S2, "OK"))

\* a value large enough for the serializer to flush in the middle of its entry
BigValue(e) == Occupied(e) /\ ValMallocUsed(e.val) > 0

\* BucketSaveCb on a bucket with a big value: SaveEntry calls flush_fun, and
\* FlushSerialized waits inside ConsumeData while SerializeBucket holds
\* big_value_mu_
SnapStepBegin(s) ==
  /\ snap[s].pc = "running"
  /\ snap[s].dbi < NumDbs
  /\ snap[s].cntx_running
  /\ ~snap[s].big_value_mu_
  /\ \E sl \in Slots : BigValue(prime[snap[s].dbi][snap[s].cursor][sl])
  /\ snap[s].pit => bver[snap[s].dbi][snap[s].cursor] < snap[s].ver
  /\ LET S1 == BucketSaveCb(Cur, s, snap[s].dbi, snap[s].cursor)
     IN Commit(Res([S1 EXCEPT !.snap[s].big_value_mu_ = TRUE], "OK"))

\* the flush is over: SerializeBucket and BucketSaveCb return, the mutex is
\* released and the traversal goes on
SnapStepResume(s) ==
  /\ snap[s].pc = "running"
  /\ snap[s].big_value_mu_
  /\ LET b == snap[s].cursor
         S1 == [Cur EXCEPT !.snap[s].big_value_mu_ = FALSE]
         S2 == IF b = NumBuckets
               THEN [S1 EXCEPT !.snap[s].cursor = 0, !.snap[s].dbi = @ + 1]
               ELSE [S1 EXCEPT !.snap[s].cursor = b + 1]
     IN Commit(Res(S2, "OK"))

\* the end of IterateBucketsFb: the return at a check of the context, or the
\* end of the loop over the databases and the cut
IterateBucketsFbEnd(S, s) ==
  IF S.snap[s].dbi < NumDbs
  THEN [S EXCEPT !.snap[s].done = Append(@, "return")]
  ELSE IF S.snap[s].stream_journal
       THEN [S EXCEPT !.snap[s].done = Append(@, "SendFullSyncCut")]
       ELSE S

\* the end of the snapshot fiber: the change callback is unregistered, and the
\* moved callback unless the snapshot goes by the versions
SnapFinish(s) ==
  /\ snap[s].pc = "running"
  /\ snap[s].dbi = NumDbs \/ (~snap[s].cntx_running /\ ~snap[s].big_value_mu_)
  /\ LET S0 == IterateBucketsFbEnd(Cur, s)
         S1 == UnregisterOnChange(S0, snap[s].ver)
         S2 == [S1 EXCEPT !.snap[s].pc = "done",
                          !.snap[s].moved_cb_id_ = FALSE,
                          !.snap[s].done = @ \o <<"UnregisterOnChange">> \o
                              (IF S0.snap[s].pit THEN <<>> ELSE <<"UnregisterOnMoved">>)]
     IN Commit(Res(S2, "OK"))

\* the execution context of the snapshot is cancelled or gets an error
SnapCancel(s) ==
  /\ snap[s].pc = "running"
  /\ snap[s].cntx_running
  /\ Commit(Res([Cur EXCEPT !.snap[s].cntx_running = FALSE,
                            !.snap[s].done = Append(@, "cancel")], "OK"))

\* SliceSnapshot::FinalizeJournalStream up to JoinIfNeeded
FinalizeJournalStreamCall(s, cancel) ==
  /\ snap[s].pc # "idle"
  /\ snap[s].fin.pc = "none"
  /\ snap[s].fin.calls < MaxFinalize
  /\ Commit(Res([Cur EXCEPT !.snap[s].fin = [pc |-> "join", cancel |-> cancel,
                                             cb_id |-> snap[s].journal_cb_id_,
                                             calls |-> @.calls + 1],
                            !.snap[s].journal_cb_id_ = FALSE,
                            !.snap[s].done = Append(@, IF cancel THEN "FinalizeJournalStream(true)"
                                                       ELSE "FinalizeJournalStream(false)")], "OK"))

\* the fiber has ended: FinalizeJournalStream after JoinIfNeeded
FinalizeJournalStreamJoined(s) ==
  /\ snap[s].fin.pc = "join"
  /\ snap[s].pc = "done"
  /\ LET f == snap[s].fin
         S1 == [Cur EXCEPT !.snap[s].fin.pc = "none"]
         S2 == IF ~f.cb_id THEN S1
               ELSE [S1 EXCEPT !.snap[s].journal_hook = FALSE,
                               !.snap[s].done = @ \o <<"journal.UnregisterOnChange">> \o
                                   (IF f.cancel THEN <<>> ELSE <<"SendJournalOffset">>)]
     IN Commit(Res(S2, "OK"))

\* ---------------------------------------------------------------- specifications
\* SET options and expiry updates the specifications draw from
PlainSet == [how |-> "", keep |-> FALSE, stick |-> FALSE, expire_after_ms |-> 0]
SetOptions ==
  {PlainSet, [PlainSet EXCEPT !.expire_after_ms = 1], [PlainSet EXCEPT !.keep = TRUE],
   [PlainSet EXCEPT !.how = "NX", !.expire_after_ms = 1], [PlainSet EXCEPT !.how = "XX"]}
ExpireOptions ==
  {[value |-> 1, absolute |-> FALSE, persist |-> FALSE, opt |-> {}],
   [value |-> 0, absolute |-> FALSE, persist |-> TRUE, opt |-> {}]}

\* the keys the clients of Spec, SpecSnap and SpecFlush work on
FewKeys == 1..2

\* A master in store mode: the operations of DbSlice on two databases.
Init ==
  /\ InitTables
  /\ InitMaster
  /\ cache_mode_ = FALSE
  /\ memory_budget_ \in {0 - 8, 0, 40}

Next ==
  \/ \E d \in Dbs, k \in FewKeys : FindReadOnly(d, k)
  \/ \E d \in Dbs, k \in FewKeys : FindMutable(d, k)
  \/ \E d \in Dbs, k \in FewKeys : AddOrFind(d, k)
  \/ \E d \in Dbs, k \in FewKeys, at \in 0..1 : AddNew(d, k, 1, at * (now + 1))
  \/ \E d \in Dbs, k \in FewKeys, at \in 0..1 : AddOrUpdate(d, k, 1, at * (now + 1))
  \/ \E d \in Dbs, k \in FewKeys, p \in SetOptions : Set(d, k, 1, p)
  \/ \E d \in Dbs, k \in FewKeys, p \in ExpireOptions : Expire(d, k, p)
  \/ \E d \in Dbs, k \in FewKeys : Del(d, k)
  \/ \E d \in Dbs : ExpireSweep(d, 3 * NumKeys)
  \/ \E d \in Dbs : FlushDb(d)
  \/ Tick

Spec == Init /\ [][Next]_vars

\* A master in store mode with point-in-time snapshots running beside inserts,
\* overwrites and deletes.
InitSnap ==
  /\ InitTables
  /\ InitMaster
  /\ cache_mode_ = FALSE
  /\ memory_budget_ = 40

NextSnap ==
  \/ \E d \in Dbs, k \in FewKeys, v \in Vals : AddOrUpdate(d, k, v, 0)
  \/ \E d \in Dbs, k \in FewKeys, v \in Vals : Set(d, k, v, PlainSet)
  \/ \E d \in Dbs, k \in FewKeys, v \in Vals : Set(d, k, v, [PlainSet EXCEPT !.how = "XX"])
  \/ \E d \in Dbs, k \in FewKeys : Del(d, k)
  \/ \E s \in Snaps : SnapStart(s, TRUE)
  \/ \E s \in Snaps : SnapStep(s)
  \/ \E s \in Snaps : SnapFinish(s)

SpecSnap == InitSnap /\ [][NextSnap]_vars

\* Memory pressure on database 0: a master or a replica, in cache or in store
\* mode, with no memory left; keys are locked, inserted (sticky or not) and deleted.
InitEvict ==
  /\ InitTables
  /\ is_replica \in BOOLEAN
  /\ loading = FALSE
  /\ expire_allowed_ = TRUE
  /\ cache_mode_ \in BOOLEAN
  /\ memory_budget_ = 0

NextEvict ==
  \/ \E k \in Keys, stick \in BOOLEAN : Set(0, k, NumVals, [PlainSet EXCEPT !.stick = stick])
  \/ \E k \in Keys : Del(0, k)
  \/ \E k \in Keys : Acquire(0, k)
  \/ \E k \in Keys : Release(0, k)
  \/ \E goal \in {1, 64} : Heartbeat(0, goal, max_eviction_per_heartbeat)

SpecEvict == InitEvict /\ [][NextEvict]_vars

\* A master in cluster mode (database 0 only): FlushSlotsFb runs beside
\* inserts, deletes and FlushDbIndexes.
InitFlush ==
  /\ InitTables
  /\ InitMaster
  /\ cache_mode_ = FALSE
  /\ memory_budget_ = 40

NextFlush ==
  \/ \E k \in FewKeys : AddNew(0, k, 1, 0)
  \/ \E k \in FewKeys : FindMutable(0, k)
  \/ \E k \in FewKeys : Del(0, k)
  \/ FlushDb(0)
  \/ \E ids \in {{1}, FewKeys} : FlushSlotsStart(ids)
  \/ FlushSlotsStep
  \/ FlushSlotsFinish

SpecFlush == InitFlush /\ [][NextFlush]_vars

\* A master in store mode: keys with and without heap storage, values with and
\* without heap storage; insertions, updates through the scoped updater, SET
\* overwrites and deletions.
MemKeys == {1, NumKeys}

InitMem ==
  /\ InitTables
  /\ InitMaster
  /\ cache_mode_ = FALSE
  /\ memory_budget_ = 40

NextMem ==
  \/ \E d \in Dbs, k \in MemKeys, v \in Vals : AddOrUpdate(d, k, v, 0)
  \/ \E d \in Dbs, k \in MemKeys, v \in Vals : Set(d, k, v, PlainSet)
  \/ \E d \in Dbs, k \in MemKeys, v \in Vals : Set(d, k, v, [PlainSet EXCEPT !.how = "XX"])
  \/ \E d \in Dbs, k \in MemKeys : FindMutable(d, k)
  \/ \E d \in Dbs, k \in MemKeys : Del(d, k)

SpecMem == InitMem /\ [][NextMem]_vars

\* A master in store mode: deadlines are set, compared, removed and passed.
InitExpire ==
  /\ InitTables
  /\ InitMaster
  /\ cache_mode_ = FALSE
  /\ memory_budget_ = 40

NextExpire ==
  \/ \E d \in Dbs, k \in FewKeys : AddNew(d, k, 1, 0)
  \/ \E d \in Dbs, k \in FewKeys, p \in ExpireParamsSet : Expire(d, k, p)
  \/ \E d \in Dbs, k \in FewKeys : FindReadOnly(d, k)
  \/ Tick

SpecExpire == InitExpire /\ [][NextExpire]_vars

\* The heartbeat on database 0 of a master, in cache or in store mode, with
\* memory to spare for insertions: entries with and without heap storage,
\* sticky or not, locked or not; the flag max_eviction_per_heartbeat is 1 or
\* its default.
EvictionGoals == {1, 41, 128}
EvictionLimits == {1, max_eviction_per_heartbeat}

InitHeartbeat ==
  /\ InitTables
  /\ InitMaster
  /\ cache_mode_ \in BOOLEAN
  /\ memory_budget_ = 40

NextHeartbeat ==
  \/ \E k \in Keys, v \in Vals, stick \in BOOLEAN :
       Set(0, k, v, [PlainSet EXCEPT !.stick = stick])
  \/ \E k \in Keys : Acquire(0, k)
  \/ \E k \in Keys : Release(0, k)
  \/ \E goal \in EvictionGoals, hb \in EvictionLimits : Heartbeat(0, goal, hb)

SpecHeartbeat == InitHeartbeat /\ [][NextHeartbeat]_vars

\* The expiry sweep on database 0 of a master beside transactions that lock
\* keys: deadlines are set and pass, keys are locked and released.
SweepCounts == {1, 3, 3 * NumKeys}

InitSweep ==
  /\ InitTables
  /\ InitMaster
  /\ cache_mode_ = FALSE
  /\ memory_budget_ = 40

NextSweep ==
  \/ \E k \in Keys, ms \in 0..1 : Set(0, k, 1, [PlainSet EXCEPT !.expire_after_ms = ms])
  \/ \E k \in Keys : Acquire(0, k)
  \/ \E k \in Keys : Release(0, k)
  \/ \E count \in SweepCounts : ExpireSweep(0, count)
  \/ Tick

SpecSweep == InitSweep /\ [][NextSweep]_vars

\* A master in cache mode (database 0): reads and writes whose callbacks end
\* with the bump, beside a point-in-time snapshot and FlushSlotsFb.
InitBump ==
  /\ InitTables
  /\ InitMaster
  /\ cache_mode_ = TRUE
  /\ memory_budget_ = 40

NextBump ==
  \/ \E k \in FewKeys, stick \in BOOLEAN : Set(0, k, 1, [PlainSet EXCEPT !.stick = stick])
  \/ \E k \in FewKeys : FindReadOnly(0, k)
  \/ \E k \in FewKeys : Del(0, k)
  \/ SnapStart(1, TRUE)
  \/ SnapStep(1)
  \/ SnapFinish(1)
  \/ FlushSlotsStart({1})
  \/ FlushSlotsStep
  \/ FlushSlotsFinish

SpecBump == InitBump /\ [][NextBump]_vars

\* A master whose snapshot consumes the journal: SETs with and without a
\* deadline, reads that expire keys, a traversal that may wait inside the
\* serialization of a big value.
InitJournal ==
  /\ InitTables
  /\ InitMaster
  /\ cache_mode_ = FALSE
  /\ memory_budget_ = 40

NextJournal ==
  \/ \E k \in FewKeys, v \in Vals, after \in 0..1 :
       Set(0, k, v, [PlainSet EXCEPT !.expire_after_ms = after])
  \/ \E k \in FewKeys : FindReadOnly(0, k)
  \/ Tick
  \/ \E pit \in BOOLEAN : SnapStartStreaming(1, pit)
  \/ SnapStep(1)
  \/ SnapStepBegin(1)
  \/ SnapStepResume(1)
  \/ SnapFinish(1)

SpecJournal == InitJournal /\ [][NextJournal]_vars

\* A master with a snapshot that streams the journal and one that does not;
\* they are cancelled at any point of their traversal, and the first is
\* finalized once or twice.
InitCancel ==
  /\ InitTables
  /\ InitMaster
  /\ cache_mode_ = FALSE
  /\ memory_budget_ = 40

NextCancel ==
  \/ \E k \in FewKeys : Set(0, k, 1, PlainSet)
  \/ \E pit \in BOOLEAN : SnapStartStreaming(1, pit)
  \/ SnapStart(2, TRUE)
  \/ \E s \in Snaps : SnapStep(s)
  \/ \E s \in Snaps : SnapCancel(s)
  \/ \E s \in Snaps : SnapFinish(s)
  \/ \E cancel \in BOOLEAN : FinalizeJournalStreamCall(1, cancel)
  \/ FinalizeJournalStreamJoined(1)

SpecCancel == InitCancel /\ [][NextCancel]_vars

\* A master in cache mode whose snapshot is not point-in-time: keys are set
\* and read in both databases, the reads bump entries out of the stash bucket
\* while the snapshot traverses, until its stream holds MaxStream values.
MaxStream == 5
InitMoved ==
  /\ InitTables
  /\ InitMaster
  /\ cache_mode_ = TRUE
  /\ memory_budget_ = 40

NextMoved ==
  \/ \E d \in Dbs, k \in FewKeys : Set(d, k, 1, PlainSet)
  \/ \E d \in Dbs, k \in FewKeys : Len(snap[1].stream) < MaxStream /\ FindReadOnly(d, k)
  \/ SnapStartStreaming(1, FALSE)
  \/ SnapStep(1)
  \/ SnapFinish(1)

SpecMoved == InitMoved /\ [][NextMoved]_vars

\* ---------------------------------------------------------------- channel store updates
\* a lock that every updater finds free
TryLockAlways(mu) == TRUE

\* update_mu can be taken
TryLock(mu) == mu = 0

\* what the connection holds of the kind the updater changes
Subscribed(c, pattern) ==
  IF pattern THEN subscribe_info[c].patterns ELSE subscribe_info[c].channels

\* ChannelStoreUpdater::Apply up to the load of most_recent; the connection
\* records only the keys that change its own set of subscriptions
ApplyLock(c, pattern, to_add, ops) ==
  /\ updater[c].pc = "idle"
  /\ conn_open[c]
  /\ Len(cs_heap) + Len(ops) + 2 <= MaxObjects
  /\ \A i \in DOMAIN ops : (ops[i] \notin Subscribed(c, pattern)) = to_add
  /\ TryLock(update_mu)
  /\ update_mu' = c
  /\ updater' = [updater EXCEPT ![c] = [IdleUpdater EXCEPT !.pc = "locked", !.pattern = pattern,
                                                          !.to_add = to_add, !.ops = ops,
                                                          !.store = most_recent]]
  /\ subscribe_info' =
       [subscribe_info EXCEPT
          ![c] = LET K == {ops[i] : i \in DOMAIN ops}
                 IN IF pattern
                    THEN [@ EXCEPT !.patterns = IF to_add THEN @ \cup K ELSE @ \ K]
                    ELSE [@ EXCEPT !.channels = IF to_add THEN @ \cup K ELSE @ \ K]]
  /\ UNCHANGED <<not_chan_vars, cs_heap, cs_freed, most_recent, tl_store, publisher, conn_open>>

\* Apply under the mutex: GetTargetMap, Modify, the replacement, the store to
\* most_recent and the unlock
ApplyModify(c, garbage, size_read) ==
  /\ updater[c].pc = "locked"
  /\ c \in Conns
  /\ ReadsEnd(cs_heap, TargetOf(cs_heap, updater[c].store, updater[c].pattern),
              updater[c].to_add, updater[c].ops)
       \/ (garbage = 0 /\ ~size_read)
  /\ LET u == updater[c]
         store == u.store
         target0 == TargetOf(cs_heap, store, u.pattern)
         copied == NeedsCopy(cs_heap, target0, u.to_add, u.ops, size_read)
         h0 == IF copied THEN Append(cs_heap, MapObj(cs_heap[target0].slots)) ELSE cs_heap
         target == IF copied THEN Len(h0) ELSE target0
         W == ModifyAll([heap |-> h0, freelist |-> {}, garbage |-> garbage],
                        target, u.to_add, c, u.ops)
         h1 == IF copied
               THEN Append(W.heap, IF u.pattern THEN StoreObj(cs_heap[store].channels_, target)
                                   ELSE StoreObj(target, cs_heap[store].patterns_))
               ELSE W.heap
     IN /\ cs_heap' = h1
        /\ most_recent' = IF copied THEN Len(h1) ELSE store
        /\ updater' = [updater EXCEPT ![c].pc = "broadcast", ![c].copied = copied,
                                      ![c].freelist = W.freelist, ![c].pending = Threads]
  /\ update_mu' = 0
  /\ UNCHANGED <<not_chan_vars, cs_freed, tl_store, publisher, subscribe_info, conn_open>>

\* the callback of AwaitBrief on thread t: UpdateChannelStore(most_recent).
\* FetchSubscribers runs without preemption, so the callback does not run
\* while the thread is inside it.
ApplyRefresh(c, t) ==
  /\ updater[c].pc = "broadcast"
  /\ c \in Conns
  /\ t \in updater[c].pending
  /\ publisher[t].pc # "fetching"
  /\ tl_store' = [tl_store EXCEPT ![t] = most_recent]
  /\ updater' = [updater EXCEPT ![c].pending = @ \ {t}]
  /\ UNCHANGED <<not_chan_vars, cs_heap, cs_freed, most_recent, update_mu, publisher,
                 subscribe_info, conn_open>>

\* an updater that does not wait for its broadcast
BroadcastReturnedAlways(u) == TRUE

\* AwaitBrief has returned: every thread has run the callback
BroadcastReturned(u) == u.pending = {}

\* Apply after the broadcast: the replaced map and store and the freelist are deleted
ApplyDelete(c) ==
  /\ updater[c].pc = "broadcast"
  /\ c \in Conns
  /\ BroadcastReturned(updater[c])
  /\ cs_freed' = cs_freed \cup updater[c].freelist \cup
                   (IF updater[c].copied
                    THEN {TargetOf(cs_heap, updater[c].store, updater[c].pattern), updater[c].store}
                    ELSE {})
  /\ updater' = [updater EXCEPT ![c].pc = "idle", ![c].pending = {}]
  /\ UNCHANGED <<not_chan_vars, cs_heap, most_recent, update_mu, tl_store, publisher,
                 subscribe_info, conn_open>>

\* a connection that has unregistered itself from the channel store closes
ConnClose(c) ==
  /\ conn_open[c]
  /\ updater[c].pc = "idle"
  /\ subscribe_info[c] = [channels |-> {}, patterns |-> {}]
  /\ conn_open' = [conn_open EXCEPT ![c] = FALSE]
  /\ publisher' = [t \in Threads |->
                     IF publisher[t].pc \in {"budget", "dispatched"}
                        /\ \E i \in DOMAIN publisher[t].subs : publisher[t].subs[i].conn = c
                           /\ publisher[t].subs[i].thread \in publisher[t].todo \cup
                                (IF publisher[t].pc = "budget" THEN Threads ELSE {})
                     THEN [publisher[t] EXCEPT !.closed = TRUE]
                     ELSE publisher[t]]
  /\ UNCHANGED <<not_chan_vars, cs_heap, cs_freed, most_recent, update_mu, tl_store, updater,
                 subscribe_info>>

\* SendMessages on thread t: FetchSubscribers reads the store of the thread
SendMessagesFetch(t, channel) ==
  /\ publisher[t].pc = "idle"
  /\ publisher[t].calls < MaxPublish
  /\ publisher' = [publisher EXCEPT ![t] =
       [IdlePublisher EXCEPT !.pc = "fetching", !.channel = channel,
                             !.held = Accessed(cs_heap, tl_store[t], channel),
                             !.subs = FetchSubscribers(cs_heap, tl_store[t], channel),
                             !.calls = publisher[t].calls + 1]]
  /\ UNCHANGED <<not_chan_vars, cs_heap, cs_freed, most_recent, update_mu, tl_store, updater,
                 subscribe_info, conn_open>>

\* FetchSubscribers returns; with no subscriber SendMessages returns 0
SendMessagesFetched(t) ==
  /\ publisher[t].pc = "fetching"
  /\ publisher' = [publisher EXCEPT ![t] =
       IF @.subs = <<>> THEN [@ EXCEPT !.pc = "idle", !.held = {}, !.ret = 0]
       ELSE [@ EXCEPT !.pc = "budget", !.held = {}]]
  /\ UNCHANGED <<not_chan_vars, cs_heap, cs_freed, most_recent, update_mu, tl_store, updater,
                 subscribe_info, conn_open>>

\* a value other than the size of the vector
ReturnValueNone(subs) == 0

\* return subscribers_ptr->size()
ReturnValue(subs) == Len(subs)

\* EnsureMemoryBudget has let the publisher pass: DispatchBrief and the return
SendMessagesDispatch(t) ==
  /\ publisher[t].pc = "budget"
  /\ publisher' = [publisher EXCEPT ![t].pc = "dispatched", ![t].ret = ReturnValue(publisher[t].subs),
                                    ![t].todo = Threads]
  /\ UNCHANGED <<not_chan_vars, cs_heap, cs_freed, most_recent, update_mu, tl_store, updater,
                 subscribe_info, conn_open>>

\* the subscribers of thread idx whose connection is there
Reachable(subs, idx) ==
  {i \in DOMAIN subs : subs[i].thread = idx /\ conn_open[subs[i].conn]}

\* the callback of DispatchBrief on thread idx
SendMessagesDeliver(t, idx) ==
  /\ publisher[t].pc = "dispatched"
  /\ idx \in publisher[t].todo
  /\ publisher' = [publisher EXCEPT ![t].sent = @ + Cardinality(Reachable(publisher[t].subs, idx)),
                                    ![t].todo = @ \ {idx},
                                    ![t].pc = IF publisher[t].todo = {idx} THEN "idle" ELSE @]
  /\ UNCHANGED <<not_chan_vars, cs_heap, cs_freed, most_recent, update_mu, tl_store, updater,
                 subscribe_info, conn_open>>

\* the keys of a set as ops_, in some order
RECURSIVE OpsOf(_)
OpsOf(K) == IF K = {} THEN <<>> ELSE LET k == CHOOSE x \in K : TRUE IN <<k>> \o OpsOf(K \ {k})

\* ChannelStoreUpdater::ApplyAndUnsubscribe, the loop over ops_: the slot of
\* every key is erased from the copy
RECURSIVE EraseAll(_, _, _)
EraseAll(W, target, ops) ==
  IF ops = <<>> THEN W
  ELSE LET m == W.heap[target]
           key == Head(ops)
       IN EraseAll(IF Find(m, key) = {}
                   THEN [W EXCEPT !.freelist = @ \cup ({W.garbage} \ {0})]
                   ELSE [W EXCEPT !.freelist = @ \cup {SlotPtr(m, key)},
                                  !.heap[target].slots = @ \ {<<key, SlotPtr(m, key)>>}],
                   target, Tail(ops))

\* ChannelStore::UnsubscribeAfterClusterSlotMigration on thread t: the channels
\* of the deleted slots are recorded from the store of the thread
MigrationRecord(t, deleted) ==
  /\ updater[MigrationUpdater].pc = "idle"
  /\ Len(cs_heap) + 2 <= MaxObjects
  /\ LET ops == OpsOf({p[1] : p \in cs_heap[cs_heap[tl_store[t]].channels_].slots} \cap deleted)
     IN /\ ops # <<>>
        /\ updater' = [updater EXCEPT ![MigrationUpdater] =
                         [IdleUpdater EXCEPT !.pc = "recorded", !.ops = ops]]
  /\ UNCHANGED <<not_chan_vars, cs_heap, cs_freed, most_recent, update_mu, tl_store, publisher,
                 subscribe_info, conn_open>>

\* ApplyAndUnsubscribe: the mutex and the load of most_recent
MigrationLock ==
  /\ updater[MigrationUpdater].pc = "recorded"
  /\ TryLock(update_mu)
  /\ update_mu' = MigrationUpdater
  /\ updater' = [updater EXCEPT ![MigrationUpdater].pc = "locked",
                                ![MigrationUpdater].store = most_recent]
  /\ UNCHANGED <<not_chan_vars, cs_heap, cs_freed, most_recent, tl_store, publisher,
                 subscribe_info, conn_open>>

\* ApplyAndUnsubscribe under the mutex: the copy, the erasures, the replacement
MigrationModify(garbage) ==
  /\ updater[MigrationUpdater].pc = "locked"
  /\ LET u == updater[MigrationUpdater]
         chans == cs_heap[u.store].channels_
         h0 == Append(cs_heap, MapObj(cs_heap[chans].slots))
         W == EraseAll([heap |-> h0, freelist |-> {}, garbage |-> garbage], Len(h0), u.ops)
         h1 == Append(W.heap, StoreObj(Len(h0), cs_heap[u.store].patterns_))
     IN /\ ReadsEnd(cs_heap, chans, FALSE, u.ops) \/ garbage = 0
        /\ cs_heap' = h1
        /\ most_recent' = Len(h1)
        /\ updater' = [updater EXCEPT ![MigrationUpdater].pc = "broadcast",
                                      ![MigrationUpdater].copied = TRUE,
                                      ![MigrationUpdater].freelist = W.freelist,
                                      ![MigrationUpdater].pending = Threads]
  /\ update_mu' = 0
  /\ UNCHANGED <<not_chan_vars, cs_freed, tl_store, publisher, subscribe_info, conn_open>>

\* the callback of AwaitFiberOnAll on thread t:
\* UnsubscribeSlotsAndUpdateChannelStore(subs, most_recent)
MigrationRefresh(t) ==
  /\ updater[MigrationUpdater].pc = "broadcast"
  /\ t \in updater[MigrationUpdater].pending
  /\ publisher[t].pc # "fetching"
  /\ tl_store' = [tl_store EXCEPT ![t] = most_recent]
  /\ subscribe_info' =
       [c \in Conns |->
          IF ThreadOf(c) = t
          THEN [subscribe_info[c] EXCEPT
                  !.channels = @ \ {updater[MigrationUpdater].ops[i] :
                                      i \in DOMAIN updater[MigrationUpdater].ops}]
          ELSE subscribe_info[c]]
  /\ updater' = [updater EXCEPT ![MigrationUpdater].pending = @ \ {t}]
  /\ UNCHANGED <<not_chan_vars, cs_heap, cs_freed, most_recent, update_mu, publisher, conn_open>>

\* ApplyAndUnsubscribe after the broadcast: the deletes
MigrationDelete ==
  /\ updater[MigrationUpdater].pc = "broadcast"
  /\ BroadcastReturned(updater[MigrationUpdater])
  /\ cs_freed' = cs_freed \cup updater[MigrationUpdater].freelist
                   \cup {cs_heap[updater[MigrationUpdater].store].channels_,
                         updater[MigrationUpdater].store}
  /\ updater' = [updater EXCEPT ![MigrationUpdater].pc = "idle"]
  /\ UNCHANGED <<not_chan_vars, cs_heap, most_recent, update_mu, tl_store, publisher,
                 subscribe_info, conn_open>>

\* what a connection subscribes to or unsubscribes from in one command
OpsChoices(K) == {<<k>> : k \in K} \cup {<<k, l>> : <<k, l>> \in {x \in K \X K : x[1] # x[2]}}

\* Connections on two threads that subscribe and unsubscribe, to channels and
\* to patterns, and close; publishers on every thread.
InitChannel ==
  /\ InitTables
  /\ InitMaster
  /\ cache_mode_ = FALSE
  /\ memory_budget_ = 40

NextChannel ==
  \/ \E c \in Conns, to_add \in BOOLEAN, ops \in OpsChoices(ChannelNames) :
       ApplyLock(c, FALSE, to_add, ops)
  \/ \E c \in Conns, to_add \in BOOLEAN, ops \in OpsChoices(PatternNames) :
       ApplyLock(c, TRUE, to_add, ops)
  \/ \E c \in Conns, garbage \in Addresses, size_read \in BOOLEAN :
       ApplyModify(c, garbage, size_read)
  \/ \E c \in Conns, t \in Threads : ApplyRefresh(c, t)
  \/ \E c \in Conns : ApplyDelete(c)
  \/ \E c \in Conns : ConnClose(c)
  \/ \E t \in Threads, channel \in ChannelNames : SendMessagesFetch(t, channel)
  \/ \E t \in Threads : SendMessagesFetched(t)
  \/ \E t \in Threads : SendMessagesDispatch(t)
  \/ \E t \in Threads, idx \in Threads : SendMessagesDeliver(t, idx)

SpecChannel == InitChannel /\ [][NextChannel]_vars

\* Connections that subscribe to channels and unsubscribe, a publisher, and the
\* removal of the channels of migrated slots.
NextMigration ==
  \/ \E c \in Conns, to_add \in BOOLEAN, k \in ChannelNames : ApplyLock(c, FALSE, to_add, <<k>>)
  \/ \E c \in Conns, garbage \in Addresses, size_read \in BOOLEAN :
       ApplyModify(c, garbage, size_read)
  \/ \E c \in Conns, t \in Threads : ApplyRefresh(c, t)
  \/ \E c \in Conns : ApplyDelete(c)
  \/ \E t \in Threads : MigrationRecord(t, ChannelNames)
  \/ MigrationLock
  \/ \E garbage \in Addresses : MigrationModify(garbage)
  \/ \E t \in Threads : MigrationRefresh(t)
  \/ MigrationDelete
  \/ \E channel \in ChannelNames : SendMessagesFetch(0, channel)
  \/ SendMessagesFetched(0)

SpecMigration == InitChannel /\ [][NextMigration]_vars

\* A master in store mode with memory to spare: SET NX, SET XX and SET XX with
\* an expiry beside reads, while the clock advances.
ConditionalOptions ==
  {[PlainSet EXCEPT !.how = "NX"], [PlainSet EXCEPT !.how = "XX"],
   [PlainSet EXCEPT !.how = "XX", !.expire_after_ms = 1]}

InitSet ==
  /\ InitTables
  /\ InitMaster
  /\ cache_mode_ = FALSE
  /\ memory_budget_ = 40

NextSet ==
  \/ \E d \in Dbs, k \in FewKeys, v \in Vals, p \in ConditionalOptions : Set(d, k, v, p)
  \/ \E d \in Dbs, k \in FewKeys : FindReadOnly(d, k)
  \/ Tick

SpecSet == InitSet /\ [][NextSet]_vars

\* ---------------------------------------------------------------- MSET over the shards
\* the commands: one to MaxPairs pairs of a key and a value
Pairs == MSetKeys \X Vals
MSetCommands == UNION {[1..n -> Pairs] : n \in 1..MaxPairs}

\* StringFamily::MSet up to ScheduleSingleHop: the callback is handed to every
\* shard the command has arguments for; ran and base are history: the pairs
\* Set stored on a shard and the length of its journal before the hop
MSetSchedule(args) ==
  /\ mset_tx.pc = "idle"
  /\ mset_tx.count < MaxMSets
  /\ mset_tx' = [mset_tx EXCEPT !.pc = "hop", !.args = args, !.pending = UniqueShards(args),
                                !.result = "OK", !.reply = "none",
                                !.ran = [sh \in Shards |-> <<>>],
                                !.base = [sh \in Shards |-> Len(shard_journal[sh])],
                                !.count = @ + 1]
  /\ UNCHANGED <<shard_db, shard_budget, shard_journal, not_mset_vars>>

\* the callback of the hop on shard sh: OpMSet on the arguments of the shard
MSetHop(sh) ==
  /\ mset_tx.pc = "hop"
  /\ sh \in mset_tx.pending
  /\ LET args == GetShardArgs(mset_tx.args, sh)
         L == OpMSetLoop([db |-> shard_db[sh], budget |-> shard_budget[sh]], args, 1, <<>>)
     IN /\ shard_db' = [shard_db EXCEPT ![sh] = L.db]
        /\ shard_budget' = [shard_budget EXCEPT ![sh] = L.budget]
        /\ shard_journal' =
             IF mset_tx.journal
             THEN [shard_journal EXCEPT
                     ![sh] = OpMSetJournal(@, args, L.stored, Cardinality(UniqueShards(mset_tx.args)))]
             ELSE shard_journal
        /\ mset_tx' = [mset_tx EXCEPT !.pending = @ \ {sh},
                                      !.result = Aggregate(@, L.result),
                                      !.ran[sh] = L.set]
  /\ UNCHANGED not_mset_vars

\* StringFamily::MSet after the hop: the reply
MSetReply ==
  /\ mset_tx.pc = "hop"
  /\ mset_tx.pending = {}
  /\ mset_tx' = [mset_tx EXCEPT !.pc = "idle",
                                !.reply = IF mset_tx.result = "OK" THEN "OK" ELSE "error"]
  /\ UNCHANGED <<shard_db, shard_budget, shard_journal, not_mset_vars>>

\* Several shards of a master in store mode, with and without a journal and
\* with more or less memory: MSET commands one after the other.
InitMSet ==
  /\ InitSlice
  /\ InitShards({12, 80}, BOOLEAN)
  /\ expired_keys_events_recording_ = FALSE
  /\ InitPush({0})
  /\ InitIncrBy({Missing})
  /\ InitStringSet({FALSE})
  /\ InitMaster
  /\ cache_mode_ = FALSE
  /\ memory_budget_ = 40

NextMSet ==
  \/ \E args \in MSetCommands : MSetSchedule(args)
  \/ \E sh \in Shards : MSetHop(sh)
  \/ MSetReply

SpecMSet == InitMSet /\ [][NextMSet]_vars

\* ---------------------------------------------------------------- scoped updaters
CurUpd == [au |-> updaters, tb |-> upd_table, dirty |-> watched_dirty, hist |-> upd_hist]

CommitUpd(U) ==
  /\ updaters' = U.au
  /\ upd_table' = U.tb
  /\ watched_dirty' = U.dirty
  /\ upd_hist' = U.hist
  /\ UNCHANGED not_upd_vars

\* the live objects in scope whose fields come from acquisition a
Holders(a) ==
  {i \in UpdaterIds : updaters[i].scope /\ updaters[i].fields.db_slice
                        /\ updaters[i].fields.acq = a}

\* FindMutable or AddOrFind on key k: AutoUpdater(db_ind, key, it, this) keeps
\* the heap size of the value
UpdaterAcquire(i, k) ==
  /\ ~updaters[i].scope
  /\ upd_hist.next <= MaxAcquired
  /\ CommitUpd([CurUpd EXCEPT
       !.au[i] = [scope |-> TRUE,
                  fields |-> [db_slice |-> TRUE, key |-> k,
                              orig_heap_size |-> upd_table.heap[k], acq |-> upd_hist.next]],
       !.hist.next = @ + 1,
       !.hist.overlap = @ \/ \E j \in UpdaterIds :
                                 updaters[j].fields.db_slice /\ updaters[j].fields.key = k])

\* AutoUpdater()
UpdaterDefault(i) ==
  /\ ~updaters[i].scope
  /\ CommitUpd([CurUpd EXCEPT !.au[i] = [scope |-> TRUE, fields |-> NoFields]])

\* AutoUpdater(AutoUpdater&& o): the fresh object i takes over from o = j
UpdaterMoveConstruct(i, j) ==
  /\ ~updaters[i].scope
  /\ updaters[j].scope
  /\ CommitUpd(UpdaterMoveAssign([CurUpd EXCEPT !.au[i] = [scope |-> TRUE, fields |-> NoFields]],
                                 i, j))

\* i = std::move(j), i and j in scope
UpdaterAssign(i, j) ==
  /\ updaters[i].scope
  /\ updaters[j].scope
  /\ CommitUpd(UpdaterMoveAssign(CurUpd, i, j))

\* a call of Run()
UpdaterRunCall(i) ==
  /\ updaters[i].scope
  /\ CommitUpd(UpdaterRun(CurUpd, i))

\* a call of Cancel(); the history keeps the acquisition that was given up
UpdaterCancelCall(i) ==
  /\ updaters[i].scope
  /\ CommitUpd([UpdaterCancel(CurUpd, i) EXCEPT
       !.hist.cancelled = IF updaters[i].fields.db_slice
                          THEN @ \cup {updaters[i].fields.acq} ELSE @])

\* a call of ReduceHeapUsage() on a live updater
UpdaterReduceCall(i) ==
  /\ updaters[i].scope
  /\ updaters[i].fields.db_slice
  /\ CommitUpd(UpdaterReduceHeapUsage(CurUpd, i))

\* ~AutoUpdater()
UpdaterDestroy(i) ==
  /\ updaters[i].scope
  /\ CommitUpd([UpdaterRun(CurUpd, i) EXCEPT !.au[i].scope = FALSE])

\* the holder of a live updater changes the value through its iterator
UpdaterSetValue(i, v) ==
  /\ updaters[i].scope
  /\ updaters[i].fields.db_slice
  /\ CommitUpd([CurUpd EXCEPT !.tb.heap[updaters[i].fields.key] = ValMallocUsed(v)])

\* DbSlice::RegisterWatchedKey
RegisterWatchedKey(c, k) ==
  /\ ~watched_dirty[c]
  /\ CommitUpd([CurUpd EXCEPT !.tb.watched_keys[k] = @ \cup {c}])

\* DbSlice::UnregisterConnectionWatches at EXEC or UNWATCH; the connection
\* clears watched_dirty
UnregisterConnectionWatches(c) ==
  /\ watched_dirty[c]
  /\ CommitUpd([CurUpd EXCEPT !.tb.watched_keys = [k \in UpdKeys |-> @[k] \ {c}],
                              !.dirty[c] = FALSE,
                              !.hist.due = @ \ {c}])

\* a client starts to track key k
TrackKey(k) ==
  /\ k \notin upd_table.client_tracking_map_
  /\ k \notin upd_table.pending_send_map_
  /\ CommitUpd([CurUpd EXCEPT !.tb.client_tracking_map_ = @ \cup {k}])

\* AutoUpdater objects that are acquired, moved, run, cancelled and destroyed
\* while connections watch and track the keys.
InitUpd ==
  /\ InitTables
  /\ InitMaster
  /\ cache_mode_ = FALSE
  /\ memory_budget_ = 40

NextUpd ==
  \/ \E i \in UpdaterIds, k \in UpdKeys : UpdaterAcquire(i, k)
  \/ \E i \in UpdaterIds : UpdaterDefault(i)
  \/ \E i \in UpdaterIds, j \in UpdaterIds : UpdaterMoveConstruct(i, j)
  \/ \E i \in UpdaterIds, j \in UpdaterIds : UpdaterAssign(i, j)
  \/ \E i \in UpdaterIds : UpdaterRunCall(i)
  \/ \E i \in UpdaterIds : UpdaterCancelCall(i)
  \/ \E i \in UpdaterIds : UpdaterReduceCall(i)
  \/ \E i \in UpdaterIds : UpdaterDestroy(i)
  \/ \E i \in UpdaterIds : UpdaterSetValue(i, NumVals)
  \/ \E c \in Conns : RegisterWatchedKey(c, 1)
  \/ \E c \in Conns : UnregisterConnectionWatches(c)
  \/ TrackKey(1)

SpecUpd == InitUpd /\ [][NextUpd]_vars

\* A master in cache mode with no memory left for the table to grow, with
\* and without keyspace notifications: keys with and without a deadline are
\* set on database 0, read, evicted by inserts and by the heartbeat, and swept.
InitKeyspace ==
  /\ InitSlice
  /\ InitShards({80}, {FALSE})
  /\ InitPush({0})
  /\ InitIncrBy({Missing})
  /\ InitStringSet({FALSE})
  /\ InitMaster
  /\ expired_keys_events_recording_ \in BOOLEAN
  /\ cache_mode_ = TRUE
  /\ memory_budget_ = 0

NextKeyspace ==
  \/ \E k \in Keys, ms \in 0..1 : Set(0, k, NumVals, [PlainSet EXCEPT !.expire_after_ms = ms])
  \/ \E k \in Keys : FindReadOnly(0, k)
  \/ \E goal \in {1, 64} : Heartbeat(0, goal, max_eviction_per_heartbeat)
  \/ ExpireSweep(0, 3 * NumKeys)
  \/ Tick

SpecKeyspace == InitKeyspace /\ [][NextKeyspace]_vars

\* ---------------------------------------------------------------- asynchronous deletion: actions
\* PerformDeletionAtomic (db_slice.cc 1736-1748) for an entry flagged for
\* asynchronous deletion that holds a dense set s of n buckets: the set is
\* detached from the value, its first chunk is cleared, and it is enqueued
\* unless that finished it
AsyncDelete(s, n) ==
  /\ deleting
  /\ dense_sets[s].st \in {"none", "freed"}
  /\ LET ds == ClearStep([st |-> "pending", buckets |-> n, cleared |-> 0, frees |-> 0],
                         0, kClearStepSizeDeletion)
         next == ClearStepNext([buckets |-> n], 0, kClearStepSizeDeletion)
         A == EnqueDeletion([head |-> head_, tasks |-> idle_tasks], next, s)
     IN IF next < n
        THEN /\ A.tasks <= MaxIdleTasks
             /\ head_' = A.head
             /\ idle_tasks' = A.tasks
             /\ dense_sets' = [dense_sets EXCEPT ![s] = ds]
        ELSE /\ dense_sets' = [dense_sets EXCEPT ![s] = DeleteMR(ds)]
             /\ UNCHANGED <<head_, idle_tasks>>
  /\ UNCHANGED <<deleting, not_del_vars>>

\* AsyncDeleter::IdleCb, run by the proactor for one registration of the task
IdleCb ==
  /\ idle_tasks > 0
  /\ IF head_ = <<>>
     THEN /\ idle_tasks' = idle_tasks - 1        \* return -1: unregister itself
          /\ UNCHANGED <<head_, dense_sets>>
     ELSE LET current == Head(head_)
              ds == dense_sets[current.ds]
              next == ClearStepNext(ds, current.cursor, kClearStepSize)
              cleared == ClearStep(ds, current.cursor, kClearStepSize)
          IN /\ IF next = ds.buckets
                THEN /\ dense_sets' = [dense_sets EXCEPT ![current.ds] = DeleteMR(cleared)]
                     /\ head_' = Tail(head_)
                ELSE /\ dense_sets' = [dense_sets EXCEPT ![current.ds] = cleared]
                     /\ head_' = <<[current EXCEPT !.cursor = next]>> \o Tail(head_)
             /\ UNCHANGED idle_tasks
  /\ UNCHANGED <<deleting, not_del_vars>>

\* the workload deletes no further sets
StopDeleting ==
  /\ deleting
  /\ deleting' = FALSE
  /\ UNCHANGED <<head_, idle_tasks, dense_sets, not_del_vars>>

NextDeleter ==
  \/ \E s \in SetIds, n \in BucketCounts : AsyncDelete(s, n)
  \/ IdleCb
  \/ StopDeleting

SpecDeleter == InitUpd /\ [][NextDeleter]_vars

\* the proactor keeps running the idle tasks that are registered
SpecDeleterFair == SpecDeleter /\ WF_vars(IdleCb)

\* ---------------------------------------------------------------- delayed entries: actions
\* SliceSnapshot::SerializeExternal: a tiered read is scheduled and the entry
\* is appended to delayed_entries_
SerializeExternal ==
  \* MaxEnqueued entries are enqueued beside those of the initial state
  /\ \/ next_entry <= MaxEnqueued
     \/ kDelayedEntries <= next_entry /\ next_entry < kDelayedEntries + MaxEnqueued
  /\ delayed_entries_' = Append(delayed_entries_, next_entry)
  /\ next_entry' = next_entry + 1
  /\ push_fiber' = [f \in PushFibers |->
                      IF push_fiber[f].pc = "idle" THEN push_fiber[f]
                      ELSE [push_fiber[f] EXCEPT !.added = TRUE]]
  /\ UNCHANGED <<serialized_len, saved, not_push_vars>>

\* SerializeEntry of a value in memory: SaveEntry fills the serializer
SerializeEntry ==
  /\ serialized_len < MaxBuffered * EntryBytes
  /\ serialized_len' = serialized_len + EntryBytes
  /\ UNCHANGED <<delayed_entries_, push_fiber, saved, next_entry, not_push_vars>>

\* PushSerialized(force) up to the blocking point of its first FlushSerialized
PushSerializedCall(f, force) ==
  /\ push_fiber[f].pc = "idle"
  \* calls run side by side while few entries have been enqueued
  /\ f = 1 \/ next_entry <= MaxEnqueued + 1
  /\ IF PushSerializedSkips(force, serialized_len, delayed_entries_)
     THEN /\ push_fiber' = [push_fiber EXCEPT ![f] = [IdlePush EXCEPT !.ret = "false"]]
          /\ UNCHANGED serialized_len
     ELSE /\ push_fiber' = [push_fiber EXCEPT ![f] =
                              [IdlePush EXCEPT !.pc = "flush", !.force = force,
                                               !.serialized = serialized_len]]
          /\ serialized_len' = 0
  /\ UNCHANGED <<delayed_entries_, saved, next_entry, not_push_vars>>

\* the first FlushSerialized returns: the call takes the last entry and
\* awaits its read, or returns if there is none
PushSerializedFlushed(f) ==
  /\ push_fiber[f].pc = "flush"
  /\ IF delayed_entries_ = <<>>
     THEN /\ push_fiber' = [push_fiber EXCEPT ![f] =
                              [IdlePush EXCEPT !.ret = IF push_fiber[f].serialized > 0
                                                       THEN "true" ELSE "false"]]
          /\ UNCHANGED delayed_entries_
     ELSE /\ push_fiber' = [push_fiber EXCEPT ![f].pc = "await",
                              ![f].entry = TakeBack(delayed_entries_).entry,
                              ![f].prev = push_fiber[f].entry]
          /\ delayed_entries_' = TakeBack(delayed_entries_).rest
  /\ UNCHANGED <<serialized_len, saved, next_entry, not_push_vars>>

\* the read of the entry resolves: SaveEntry, then the next entry is taken or,
\* at an empty list, the second FlushSerialized begins
PushSerializedResolved(f) ==
  /\ push_fiber[f].pc = "await"
  /\ saved' = saved \cup {push_fiber[f].entry}
  /\ IF delayed_entries_ = <<>>
     THEN /\ push_fiber' = [push_fiber EXCEPT ![f].pc = "last", ![f].entry = 0,
                              ![f].serialized = @ + serialized_len + EntryBytes]
          /\ serialized_len' = 0
          /\ UNCHANGED delayed_entries_
     ELSE /\ push_fiber' = [push_fiber EXCEPT
                              ![f].entry = TakeBack(delayed_entries_).entry,
                              ![f].prev = push_fiber[f].entry]
          /\ serialized_len' = serialized_len + EntryBytes
          /\ delayed_entries_' = TakeBack(delayed_entries_).rest
  /\ UNCHANGED <<next_entry, not_push_vars>>

\* the second FlushSerialized returns, and PushSerialized with it
PushSerializedReturn(f) ==
  /\ push_fiber[f].pc = "last"
  /\ push_fiber' = [push_fiber EXCEPT ![f] =
                      [IdlePush EXCEPT !.ret = IF push_fiber[f].serialized > 0
                                               THEN "true" ELSE "false"]]
  /\ UNCHANGED <<delayed_entries_, serialized_len, saved, next_entry, not_push_vars>>

\* the snapshot has no delayed entry yet, or it has enqueued one less than
\* makes PushSerialized(false) go on
InitPushSerialized ==
  /\ InitSlice
  /\ InitShards({80}, {FALSE})
  /\ expired_keys_events_recording_ = FALSE
  /\ InitMaster
  /\ cache_mode_ = FALSE
  /\ memory_budget_ = 40
  /\ InitPush({0, kDelayedEntries - 1})
  /\ InitIncrBy({Missing})
  /\ InitStringSet({FALSE})

NextPushSerialized ==
  \/ SerializeExternal
  \/ SerializeEntry
  \/ \E f \in PushFibers, force \in BOOLEAN : PushSerializedCall(f, force)
  \/ \E f \in PushFibers : PushSerializedFlushed(f)
  \/ \E f \in PushFibers : PushSerializedResolved(f)
  \/ \E f \in PushFibers : PushSerializedReturn(f)

SpecPushSerialized == InitPushSerialized /\ [][NextPushSerialized]_vars

\* ---------------------------------------------------------------- lazy expiry where it is off
\* a master or a replica, with expiry allowed or not, whose shard lock is
\* taken and released
InitLazy ==
  /\ InitTables
  /\ is_replica \in BOOLEAN
  /\ expire_allowed_ \in BOOLEAN
  /\ loading = FALSE
  /\ cache_mode_ = FALSE
  /\ memory_budget_ = 40

NextLazy ==
  \/ \E k \in FewKeys, ms \in 0..1 : Set(0, k, 1, [PlainSet EXCEPT !.expire_after_ms = ms])
  \/ \E k \in FewKeys : FindReadOnly(0, k)
  \/ \E k \in FewKeys : FindMutable(0, k)
  \/ \E k \in FewKeys : AddOrFind(0, k)
  \/ ShardLock
  \/ Tick

SpecLazy == InitLazy /\ [][NextLazy]_vars

\* ---------------------------------------------------------------- finds while slots are flushed
InitStale ==
  /\ InitTables
  /\ InitMaster
  /\ cache_mode_ = FALSE
  /\ memory_budget_ \in {0, 40}

NextStale ==
  \/ \E k \in FewKeys : AddNew(0, k, 1, 0)
  \/ \E k \in FewKeys : FindMutable(0, k)
  \/ \E k \in FewKeys : AddOrFind(0, k)
  \/ \E s \in Snaps : SnapStart(s, TRUE)
  \/ \E ids \in {{1}, FewKeys} : FlushSlotsStart(ids)
  \/ FlushSlotsStep
  \/ FlushSlotsFinish

SpecStale == InitStale /\ [][NextStale]_vars

\* ---------------------------------------------------------------- serialization latch: actions
\* DbSlice::RegisterOnChange, by a fiber that starts a snapshot or a flush of slots
LatchRegister ==
  /\ version_ < MaxVersion
  /\ change_cb_' = RegisterOnChange(Cur, 0).cbs
  /\ version_' = RegisterOnChange(Cur, 0).version
  /\ UNCHANGED <<serialization_latch_, latch_fiber, not_registry_vars>>

\* CallChangeCallbacks up to its first callback: nothing at an empty list,
\* else the latch is taken, which only adds one to the counter
DispatchBegin(f) ==
  /\ latch_fiber[f].pc = "idle"
  /\ change_cb_ # <<>>
  /\ serialization_latch_' = serialization_latch_ + 1
  /\ latch_fiber' = [latch_fiber EXCEPT ![f] =
                       [IdleLatchFiber EXCEPT !.pc = "dispatch", !.limit = Len(change_cb_),
                                              !.pos = 1, !.since = version_]]
  /\ UNCHANGED <<slice_vars, not_latch_vars>>

\* one callback of the dispatch runs; it may preempt, and the other fibers run
DispatchInvoke(f) ==
  /\ latch_fiber[f].pc = "dispatch"
  /\ ~DispatchDone(latch_fiber[f], change_cb_)
  /\ latch_fiber' = [latch_fiber EXCEPT
                       ![f].invoked = Append(@, change_cb_[latch_fiber[f].pos].ver),
                       ![f].pos = @ + 1]
  /\ UNCHANGED <<serialization_latch_, slice_vars, not_latch_vars>>

\* the dispatch ends: the latch is released
DispatchEnd(f) ==
  /\ latch_fiber[f].pc = "dispatch"
  /\ DispatchDone(latch_fiber[f], change_cb_)
  /\ serialization_latch_' = serialization_latch_ - 1
  /\ latch_fiber' = [latch_fiber EXCEPT ![f].pc = "idle"]
  /\ UNCHANGED <<slice_vars, not_latch_vars>>

\* BucketSaveCb takes the latch around SerializeBucket (snapshot.cc 277-284)
SerializeBegin(f) ==
  /\ latch_fiber[f].pc = "idle"
  /\ serialization_latch_' = serialization_latch_ + 1
  /\ latch_fiber' = [latch_fiber EXCEPT ![f] = [IdleLatchFiber EXCEPT !.pc = "serialize"]]
  /\ UNCHANGED <<slice_vars, not_latch_vars>>

SerializeEnd(f) ==
  /\ latch_fiber[f].pc = "serialize"
  /\ serialization_latch_' = serialization_latch_ - 1
  /\ latch_fiber' = [latch_fiber EXCEPT ![f].pc = "idle"]
  /\ UNCHANGED <<slice_vars, not_latch_vars>>

\* UnregisterOnChange(id) up to its Wait; the CHECK wants id registered, and
\* one fiber unregisters a callback
UnregisterCall(f, id) ==
  /\ latch_fiber[f].pc = "idle"
  /\ \E i \in DOMAIN change_cb_ : change_cb_[i].ver = id
  /\ \A g \in LatchFibers : ~(latch_fiber[g].pc = "wait" /\ latch_fiber[g].id = id)
  /\ latch_fiber' = [latch_fiber EXCEPT ![f] = [IdleLatchFiber EXCEPT !.pc = "wait", !.id = id]]
  /\ UNCHANGED <<serialization_latch_, slice_vars, not_latch_vars>>

\* Wait returns and the callback is erased, without a preemption in between
UnregisterErase(f) ==
  /\ latch_fiber[f].pc = "wait"
  /\ LatchFree(serialization_latch_)
  /\ change_cb_' = UnregisterOnChange(Cur, latch_fiber[f].id).cbs
  /\ latch_fiber' = [latch_fiber EXCEPT ![f].pc = "idle"]
  /\ UNCHANGED <<version_, serialization_latch_, not_registry_vars>>

NextLatch ==
  \/ LatchRegister
  \/ \E f \in LatchFibers : DispatchBegin(f)
  \/ \E f \in LatchFibers : DispatchInvoke(f)
  \/ \E f \in LatchFibers : DispatchEnd(f)
  \/ \E f \in LatchFibers : SerializeBegin(f)
  \/ \E f \in LatchFibers : SerializeEnd(f)
  \/ \E f \in LatchFibers, id \in 1..MaxVersion : UnregisterCall(f, id)
  \/ \E f \in LatchFibers : UnregisterErase(f)

SpecLatch == InitUpd /\ [][NextLatch]_vars

\* ---------------------------------------------------------------- finds with an expected type
\* a command that adds key k with a value of type t (AddNew, then the value
\* is initialised by the family of the command)
AddNewOfType(d, k, t, at) ==
  /\ ~Has(prime[d], k)
  /\ CommitOfType(CallbackEnd(AddOrUpdateInternal(Cur, d, k, 1, at, FALSE)),
                  [obj_type EXCEPT ![d][k] = t])

\* DbSlice::FindReadOnly(cntx, key, req_obj_type)
FindReadOnlyTyped(d, k, req_obj_type) ==
  CommitOfType(CallbackEnd(FindInternalTyped(Cur, d, k, req_obj_type)), obj_type)

InitTyped ==
  /\ InitTables
  /\ InitMaster
  /\ cache_mode_ = FALSE
  /\ memory_budget_ = 40

NextTyped ==
  \/ \E k \in FewKeys, t \in ObjTypes, at \in 0..1 : AddNewOfType(0, k, t, at)
  \/ \E k \in FewKeys, t \in ObjTypes \cup {NoType} : FindReadOnlyTyped(0, k, t)
  \/ Tick

SpecTyped == InitTyped /\ [][NextTyped]_vars

\* ---------------------------------------------------------------- INCRBY and DECRBY
IncrReply(cmd, arg, skip_on_missing, no_memory, R) ==
  [cmd |-> cmd, arg |-> arg, skip_on_missing |-> skip_on_missing, no_memory |-> no_memory,
   prev |-> incr_value, status |-> R.status, value |-> R.value]

\* StringFamily::IncrBy: IncrByGeneric(key, val)
IncrBy(val, skip_on_missing, no_memory) ==
  /\ incr_value' = OpIncrBy(incr_value, val, skip_on_missing, no_memory).stored
  /\ incr_reply' = IncrReply("INCRBY", val, skip_on_missing, no_memory,
                             OpIncrBy(incr_value, val, skip_on_missing, no_memory))
  /\ UNCHANGED not_num_vars

\* StringFamily::DecrBy
DecrBy(val, skip_on_missing, no_memory) ==
  /\ incr_value' = DecrByOp(incr_value, val, skip_on_missing, no_memory).stored
  /\ incr_reply' = IncrReply("DECRBY", val, skip_on_missing, no_memory,
                             DecrByOp(incr_value, val, skip_on_missing, no_memory))
  /\ UNCHANGED not_num_vars

InitIncr ==
  /\ InitSlice
  /\ InitShards({80}, {FALSE})
  /\ InitPush({0})
  /\ expired_keys_events_recording_ = FALSE
  /\ InitMaster
  /\ cache_mode_ = FALSE
  /\ memory_budget_ = 40
  /\ InitIncrBy(IncrValues)
  /\ InitStringSet({FALSE})

NextIncr ==
  \/ \E val \in Int64, skip_on_missing \in BOOLEAN, no_memory \in BOOLEAN :
       IncrBy(val, skip_on_missing, no_memory)
  \/ \E val \in Int64, skip_on_missing \in BOOLEAN, no_memory \in BOOLEAN :
       DecrBy(val, skip_on_missing, no_memory)

SpecIncr == InitIncr /\ [][NextIncr]_vars

\* ---------------------------------------------------------------- SADD and SADDEX
\* StringSet::Add(src, ttl_sec)
SetAdd(member, ttl_sec) ==
  /\ set_members' = StringSetAdd(set_members, member, set_time, ttl_sec).set
  /\ set_reply' = [op |-> "Add", span |-> <<member>>, ttl_sec |-> ttl_sec, keepttl |-> FALSE,
                   res |-> StringSetAdd(set_members, member, set_time, ttl_sec).res,
                   updated |-> UpdatedMembers(set_members, set_members')]
  /\ UNCHANGED <<set_time, legacy_saddex_keepttl, update_ttl, not_sset_vars>>

\* StringSet::AddMany(span, ttl_sec, keepttl)
SetAddMany(span, ttl_sec, keepttl) ==
  /\ update_ttl' = UpdateTtlFlag(update_ttl)
  /\ set_members' = AddMany([set |-> set_members, res |-> 0], span, set_time, ttl_sec, keepttl,
                            UpdateTtlFlag(update_ttl).v).set
  /\ set_reply' = [op |-> "AddMany", span |-> span, ttl_sec |-> ttl_sec, keepttl |-> keepttl,
                   res |-> AddMany([set |-> set_members, res |-> 0], span, set_time, ttl_sec,
                                   keepttl, UpdateTtlFlag(update_ttl).v).res,
                   updated |-> UpdatedMembers(set_members, set_members')]
  /\ UNCHANGED <<set_time, legacy_saddex_keepttl, not_sset_vars>>

\* StringSet::set_time: the clock of the set moves on
SetTime ==
  /\ set_time < MaxSetTime
  /\ set_time' = set_time + 1
  /\ set_reply' = NoSetReply
  /\ UNCHANGED <<set_members, legacy_saddex_keepttl, update_ttl, not_sset_vars>>

InitSAdd ==
  /\ InitSlice
  /\ InitShards({80}, {FALSE})
  /\ InitPush({0})
  /\ InitIncrBy({Missing})
  /\ expired_keys_events_recording_ = FALSE
  /\ InitMaster
  /\ cache_mode_ = FALSE
  /\ memory_budget_ = 40
  /\ InitStringSet(BOOLEAN)

NextStringSet ==
  \/ \E member \in Members, ttl_sec \in TtlArgs : SetAdd(member, ttl_sec)
  \/ \E span \in Spans, ttl_sec \in TtlArgs, keepttl \in BOOLEAN : SetAddMany(span, ttl_sec, keepttl)
  \/ SetTime

SpecStringSet == InitSAdd /\ [][NextStringSet]_vars

\* ---------------------------------------------------------------- incremental snapshot
\* journal->IsLSNInBuffer
IsLSNInBuffer(j, lsn) == j.first <= lsn /\ lsn < j.lsn

\* a test that takes every end of the replay for its success
ReachedHeadAlways(j, lsn) == TRUE

\* journal->GetLsn() == lsn
ReachedHead(j, lsn) == j.lsn = lsn

\* the journal adds a record: it gets the next LSN, the oldest record leaves a
\* full buffer, and a registered consumer is called (ConsumeJournalChange)
JournalAddLogRecord ==
  /\ journal_buf.lsn < MaxLsn
  /\ journal_buf' = [lsn |-> journal_buf.lsn + 1,
                     first |-> IF journal_buf.lsn + 1 - journal_buf.first > JournalCapacity
                               THEN journal_buf.first + 1 ELSE journal_buf.first]
  /\ incremental' = IF incremental.journal_cb_id_
                    THEN [incremental EXCEPT !.out = Append(@, journal_buf.lsn)]
                    ELSE incremental
  /\ UNCHANGED not_incr_vars

\* SliceSnapshot::StartIncremental: the replica asks for the records from start_lsn
StartIncremental(start_lsn) ==
  /\ incremental.pc = "idle"
  /\ start_lsn <= journal_buf.lsn
  /\ incremental' = [incremental EXCEPT !.pc = "replay", !.start = start_lsn, !.lsn = start_lsn]
  /\ UNCHANGED <<not_incr_vars, journal_buf>>

\* the body of the loop of SwitchIncrementalFb up to PushSerialized
SwitchIncrementalWrite ==
  /\ incremental.pc = "replay"
  /\ incremental.running /\ IsLSNInBuffer(journal_buf, incremental.lsn)
  /\ incremental' = [incremental EXCEPT !.pc = "pushing", !.out = Append(@, incremental.lsn)]
  /\ UNCHANGED <<not_incr_vars, journal_buf>>

\* PushSerialized has returned: lsn++
SwitchIncrementalPushed ==
  /\ incremental.pc = "pushing"
  /\ incremental' = [incremental EXCEPT !.pc = "replay", !.lsn = @ + 1]
  /\ UNCHANGED <<not_incr_vars, journal_buf>>

\* the loop is over: the cut and the registration, or the error
SwitchIncrementalEnd ==
  /\ incremental.pc = "replay"
  /\ ~(incremental.running /\ IsLSNInBuffer(journal_buf, incremental.lsn))
  /\ incremental' = IF ReachedHead(journal_buf, incremental.lsn)
                    THEN [incremental EXCEPT !.pc = "streaming", !.journal_cb_id_ = TRUE,
                                             !.out = Append(@, FullSyncCut)]
                    ELSE [incremental EXCEPT !.pc = "failed", !.running = FALSE]
  /\ UNCHANGED <<not_incr_vars, journal_buf>>

\* the execution context is cancelled
CancelIncremental ==
  /\ incremental.running
  /\ incremental.pc \in {"replay", "pushing"}
  /\ incremental' = [incremental EXCEPT !.running = FALSE]
  /\ UNCHANGED <<not_incr_vars, journal_buf>>

\* A journal that grows and drops its oldest records while an incremental
\* snapshot replays it.
InitIncremental ==
  /\ InitTables
  /\ InitMaster
  /\ cache_mode_ = FALSE
  /\ memory_budget_ = 40

NextIncremental ==
  \/ JournalAddLogRecord
  \/ \E start_lsn \in 1..MaxLsn : StartIncremental(start_lsn)
  \/ SwitchIncrementalWrite
  \/ SwitchIncrementalPushed
  \/ SwitchIncrementalEnd
  \/ CancelIncremental

SpecIncremental == InitIncremental /\ [][NextIncremental]_vars

\* ---------------------------------------------------------------- FlushSerialized
\* the chunks one after the other
RECURSIVE Flatten(_)
Flatten(chunks) == IF chunks = <<>> THEN <<>> ELSE Head(chunks).data \o Flatten(Tail(chunks))

\* the items held in the sfile of the calls of fibers 1..n
RECURSIVE HeldItems(_)
HeldItems(n) == IF n = 0 THEN 0 ELSE HeldItems(n - 1) + Len(flush_fiber[n].sfile)

\* the number of items written to serializer_ so far: none is lost
ItemsWritten == Len(serializer_) + HeldItems(NumFibers) + Len(Flatten(consumer_))

\* a predicate of seq_cond_.wait that lets every later id pass
SeqCondPredicateLater(id, last_pushed_id) == id > last_pushed_id

\* the predicate of seq_cond_.wait
SeqCondPredicate(id, last_pushed_id) == id = last_pushed_id + 1

\* an entry or a journal entry is written to serializer_ by a fiber that is not
\* inside FlushSerialized; the items are numbered in the order they are written
SerializerWrite(f) ==
  /\ flush_fiber[f].pc = "idle"
  /\ ItemsWritten < MaxItems
  /\ serializer_' = Append(serializer_, ItemsWritten + 1)
  /\ UNCHANGED <<not_flush_vars, rec_id_, last_pushed_id_, consumer_, flush_fiber>>

\* FlushSerialized up to seq_cond_.wait: FlushToSink moves what serializer_ holds
\* to sfile; an empty sfile returns 0; else the call takes the next id
FlushSerializedCall(f) ==
  /\ flush_fiber[f].pc = "idle"
  /\ IF serializer_ = <<>>
     THEN /\ flush_fiber' = [flush_fiber EXCEPT ![f].ret = 0]
          /\ UNCHANGED <<rec_id_, serializer_>>
     ELSE /\ flush_fiber' = [flush_fiber EXCEPT ![f] = [pc |-> "wait", id |-> rec_id_,
                                                        sfile |-> serializer_, ret |-> @.ret]]
          /\ rec_id_' = rec_id_ + 1
          /\ serializer_' = <<>>
  /\ UNCHANGED <<not_flush_vars, last_pushed_id_, consumer_>>

\* the wait is over and the fiber enters ConsumeData, a blocking point
FlushSerializedConsume(f) ==
  /\ flush_fiber[f].pc = "wait"
  /\ SeqCondPredicate(flush_fiber[f].id, last_pushed_id_)
  /\ consumer_' = Append(consumer_, [id |-> flush_fiber[f].id, data |-> flush_fiber[f].sfile])
  /\ flush_fiber' = [flush_fiber EXCEPT ![f].pc = "consume", ![f].sfile = <<>>,
                                        ![f].ret = Len(flush_fiber[f].sfile)]
  /\ UNCHANGED <<not_flush_vars, rec_id_, last_pushed_id_, serializer_>>

\* ConsumeData has returned: last_pushed_id_ = id, notify_all, return serialized
FlushSerializedPushed(f) ==
  /\ flush_fiber[f].pc = "consume"
  /\ last_pushed_id_' = flush_fiber[f].id
  /\ flush_fiber' = [flush_fiber EXCEPT ![f].pc = "idle", ![f].id = 0]
  /\ UNCHANGED <<not_flush_vars, rec_id_, serializer_, consumer_>>

\* Several fibers of one SliceSnapshot write to serializer_ and flush it.
InitFlushSerialized ==
  /\ InitTables
  /\ InitMaster
  /\ cache_mode_ = FALSE
  /\ memory_budget_ = 40

NextFlushSerialized ==
  \/ \E f \in Fibers : SerializerWrite(f)
  \/ \E f \in Fibers : FlushSerializedCall(f)
  \/ \E f \in Fibers : FlushSerializedConsume(f)
  \/ \E f \in Fibers : FlushSerializedPushed(f)

SpecFlushSerialized == InitFlushSerialized /\ [][NextFlushSerialized]_vars

\* ---------------------------------------------------------------- the claims
\* the sum of the sizes of the prime tables of db_arr_
PrimeSizes ==
  LET F[n \in 0..NumDbs] == IF n = 0 THEN 0 ELSE F[n - 1] + TableSize(prime[n - 1])
  IN F[NumDbs]

\* C1: after any sequence of operations a key has a deadline in the expire
\* table exactly when it is in the prime table with the has-expire flag set.
\* AddOrUpdate with expire_at_ms = 0 on a key that has a deadline assigns the
\* new value over the flag and leaves the deadline in the expire table.
C1_ExpireTableMatchesFlag ==
  \A d \in Dbs, k \in Keys :
    (expire[d][k] # NoExpire) <=> (Has(prime[d], k) /\ EntryOf(prime[d], k).expire)

\* C10: entries_count_ is the sum of the sizes of the prime tables of all
\* databases after any sequence of insertions, deletions and flushes.
\* FlushSlotsFb goes on deleting from the table it holds after FlushDbIndexes
\* has replaced that table and subtracted its size.
C10_EntriesCountIsSumOfSizes == entries_count_ = PrimeSizes

\* the insertions of a new key that DbSlice offers, applied to the current state
NewKeyInsertions(d, k) ==
  {AddOrFindInternal(Cur, d, k)}
    \cup {AddOrUpdateInternal(Cur, d, k, v, at, f) : v \in Vals, at \in Times, f \in BOOLEAN}

\* the insertion is rejected and nothing but the rejection counter changes
RejectedUnchanged(R) ==
  /\ R.status = "OUT_OF_MEMORY"
  /\ R.S.events.insertion_rejections = events_.insertion_rejections + 1
  /\ R.S.prime = prime
  /\ R.S.entries = entries_count_

StoreModeMaster == ~cache_mode_ /\ ~is_replica /\ ~loading

\* C9: on a master in store mode no insertion of a new key succeeds once the
\* memory budget less the length of the key is below zero: the operation
\* returns OUT_OF_MEMORY, insertion_rejections grows by one, and the prime
\* table and entries_count_ are unchanged.
C9_RejectedBelowKeyLength ==
  \A d \in Dbs, k \in Keys :
    (StoreModeMaster /\ ~Has(prime[d], k) /\ memory_budget_ - KeyLen(k) < 0)
      => \A R \in NewKeyInsertions(d, k) : RejectedUnchanged(R)

\* C9 as the specification states it: in store mode every insertion of a new
\* key is rejected whenever memory_budget_ <= 0
C9_RejectedAtOrBelowZero ==
  \A d \in Dbs, k \in Keys :
    (~cache_mode_ /\ ~Has(prime[d], k) /\ memory_budget_ <= 0)
      => \A R \in NewKeyInsertions(d, k) : RejectedUnchanged(R)

\* an insertion was rejected and the budget is still short of an absent key
C9_Witness ==
  /\ StoreModeMaster
  /\ events_.insertion_rejections > 0
  /\ \E d \in Dbs, k \in Keys : ~Has(prime[d], k) /\ memory_budget_ - KeyLen(k) < 0

\* the sticky keys of database d
StickyKeys(d) == {k \in Keys : Has(prime[d], k) /\ EntryOf(prime[d], k).sticky}

\* C7: in cache mode no step that evicts (insert-time Evict or the heartbeat
\* step, both counted in evicted_keys) removes a sticky key.
C7_StickyNeverEvicted ==
  [][(cache_mode_ /\ events_'.evicted_keys > events_.evicted_keys)
       => \A d \in Dbs : \A k \in StickyKeys(d) :
            Has(prime'[d], k) /\ EntryOf(prime'[d], k).sticky]_vars

\* keys were evicted in cache mode and a sticky key is in the table
C7_Witness ==
  /\ cache_mode_
  /\ events_.evicted_keys > 0
  /\ StickyKeys(0) # {}

\* the entries that the insertion of key k by SET evicts in the current state
EvictedBySet(d, k) ==
  UNION {SetCmdSet(Cur, d, k, v, [PlainSet EXCEPT !.stick = stick]).S.tr.evicted :
           v \in Vals, stick \in BOOLEAN}

\* C8: an insertion evicts at most one entry through Evict and never the entry
\* of a key on which a transaction lock is held; on a replica and in store mode
\* it evicts nothing.
C8_EvictAtMostOneUnlocked ==
  \A d \in Dbs, k \in Keys :
    /\ Cardinality(EvictedBySet(d, k)) <= 1
    /\ \A x \in EvictedBySet(d, k) : x.e.key \notin trans_locks[d]
    /\ (is_replica \/ ~cache_mode_) => EvictedBySet(d, k) = {}

\* a key was evicted, an insertion was rejected, and the entry that Evict
\* would take next is not sticky but locked
C8_Witness ==
  /\ cache_mode_
  /\ ~is_replica
  /\ events_.evicted_keys > 0
  /\ events_.insertion_rejections > 0
  /\ ~prime[0][StashBucket][SlotNum].sticky
  /\ prime[0][StashBucket][SlotNum].key \in trans_locks[0]

\* the keys of the records of a stream
StreamKeys(q) == [i \in 1..Len(q) |-> <<q[i][1], q[i][2]>>]
InStream(q, r) == \E i \in 1..Len(q) : q[i] = r
NoDuplicates(q) == \A i, j \in 1..Len(q) : i # j => q[i] # q[j]

\* the entries existing at the start of snapshot s whose keys were not deleted
\* before their bucket was serialized
Surviving(s) == {r \in snap[s].start : <<r[1], r[2]>> \notin snap[s].missed}

\* C2: a point-in-time snapshot emits no key twice, and when it is done it has
\* emitted every key that existed at its start and was not deleted before its
\* bucket was traversed.
C2_EachKeyExactlyOnce ==
  \A s \in Snaps :
    snap[s].pit =>
      /\ NoDuplicates(StreamKeys(snap[s].stream))
      /\ snap[s].pc = "done" =>
           \A r \in Surviving(s) : InStream(StreamKeys(snap[s].stream), <<r[1], r[2]>>)

\* a snapshot is done; it emitted a key and missed another, deleted before its
\* bucket was traversed
C2_Witness ==
  \E s \in Snaps :
    /\ snap[s].pc = "done"
    /\ snap[s].missed # {}
    /\ Len(snap[s].stream) > 0

Registered == [i \in 1..Len(change_cb_) |-> change_cb_[i].ver]

IsCallbackCall(e) == e.t = "cb"
\* the versions of the callbacks an operation called, in the order of the calls
Called(log) ==
  [i \in 1..Len(SelectSeq(log, IsCallbackCall)) |-> SelectSeq(log, IsCallbackCall)[i].v]

\* every call of a callback precedes every event of kind t
CallsPrecede(log, t) ==
  \A i, j \in 1..Len(log) : (log[i].t = "cb" /\ log[j].t = t) => i < j

\* the operations that insert key k or hand out a mutable iterator on it
UpdatesOf(d, k) ==
  {FindMutableInternal(Cur, d, k), AddOrFindInternal(Cur, d, k)}
    \cup {AddOrUpdateInternal(Cur, d, k, v, 0, TRUE) : v \in Vals}
    \cup {SetCmdSet(Cur, d, k, v, PlainSet) : v \in Vals}

\* the operation called every registered callback once, in registration order,
\* before it changed the bucket, and then gave the bucket of k the version
\* that version_ held
CallbacksThenUpdate(R, d, k) ==
  /\ Called(R.S.tr.log) = Registered
  /\ CallsPrecede(R.S.tr.log, "mut")
  /\ CallsPrecede(R.S.tr.log, "ver")
  /\ Has(R.S.prime[d], k)
  /\ R.S.bver[d][BucketOf(R.S.prime[d], k)] = version_
  /\ R.S.version = version_ + 1

\* C4: an operation that inserts a new key or hands out a mutable iterator on
\* an existing one (the way to an overwrite) first calls every registered
\* change callback in registration order, then changes the bucket and sets its
\* version to the value of version_ (next_version).  A deletion through
\* PerformDeletion calls no callback.
C4_CallbacksBeforeUpdate ==
  \A d \in Dbs, k \in Keys :
    /\ \A R \in UpdatesOf(d, k) : R.status = "OK" => CallbacksThenUpdate(R, d, k)
    /\ Has(prime[d], k) => Called(PerformDeletion(Cur, d, k).tr.log) = <<>>

\* C4 as the specification states it: a deletion calls the callbacks as well
C4_CallbacksBeforeAnyMutation ==
  \A d \in Dbs, k \in Keys :
    /\ \A R \in UpdatesOf(d, k) : R.status = "OK" => CallbacksThenUpdate(R, d, k)
    /\ Has(prime[d], k) =>
         /\ Called(PerformDeletion(Cur, d, k).tr.log) = Registered
         /\ CallsPrecede(PerformDeletion(Cur, d, k).tr.log, "del")

\* two callbacks are registered and a bucket was updated after both
C4_Witness ==
  /\ Len(change_cb_) = 2
  /\ \E d \in Dbs, b \in Buckets :
       /\ bver[d][b] > change_cb_[2].ver
       /\ \E sl \in Slots : Occupied(prime[d][b][sl])

\* C5: the version of a bucket never decreases, whatever the operation.
C5_BucketVersionsNeverDecrease ==
  [][\A d \in Dbs, b \in Buckets : bver'[d][b] >= bver[d][b]]_vars

\* two snapshots run and a bucket that holds an entry carries the version of
\* the later one: both serialized it, the earlier one first
C5_Witness ==
  \E d \in Dbs, b \in Buckets :
    /\ \E sl \in Slots : Occupied(prime[d][b][sl])
    /\ \A s \in Snaps :
         /\ snap[s].pc = "running"
         /\ bver[d][b] >= snap[s].ver
         /\ \E i \in 1..Len(snap[s].stream) : snap[s].stream[i][1] = d
    /\ \E s \in Snaps : bver[d][b] = snap[s].ver

\* C6: version_ never decreases and NextVersion raises it, so every version
\* handed out is above all handed out before: the versions of the buckets and
\* of the callbacks are below version_; no two callbacks share a version
\* and change_cb_ is sorted by it.
C6_VersionsIncrease ==
  /\ [](/\ \A d \in Dbs, b \in Buckets : bver[d][b] < version_
        /\ \A i \in 1..Len(change_cb_) : change_cb_[i].ver < version_
        /\ \A i, j \in 1..Len(change_cb_) : i < j => change_cb_[i].ver < change_cb_[j].ver
        /\ NextVersion(Cur).version > version_
        /\ NextVersion(Cur).tr.handed = <<version_>>)
  /\ [][version_' >= version_]_vars

\* two callbacks are registered and a bucket was updated between the two
\* registrations
C6_Witness ==
  /\ Len(change_cb_) = 2
  /\ \E d \in Dbs, b \in Buckets :
       change_cb_[1].ver < bver[d][b] /\ bver[d][b] < change_cb_[2].ver

\* the heap bytes of the keys and of the values stored in table d
ObjectHeap(d) ==
  LET F[k \in 0..NumKeys] ==
        IF k = 0 THEN 0
        ELSE IF Has(prime[d], k)
             THEN F[k - 1] + KeyMallocUsed(k) + ValMallocUsed(EntryOf(prime[d], k).val)
             ELSE F[k - 1]
  IN F[NumKeys]

\* C11: after every completed operation (insertion, update of a value released
\* through the scoped updater, SET overwrite with ReduceHeapUsage, deletion)
\* obj_memory_usage of a database is the sum over its stored keys of the heap
\* size of the key (0 for an inline key) and the heap size of the value, and
\* it is never negative.
C11_ObjMemoryIsSumOfHeapSizes ==
  \A d \in Dbs : obj_memory_usage[d] = ObjectHeap(d) /\ obj_memory_usage[d] >= 0

\* a heap key with a heap value beside an inline key with an inline value,
\* after two insertions and an update
C11_Witness ==
  /\ Has(prime[0], NumKeys) /\ EntryOf(prime[0], NumKeys).val = NumVals
  /\ Has(prime[0], 1) /\ EntryOf(prime[0], 1).val = 1
  /\ version_ = MaxVersion
  /\ obj_memory_usage[0] = KeyMallocUsed(NumKeys) + ValMallocUsed(NumVals)
  /\ obj_memory_usage[0] > 0

\* memory_budget_ after the deletion of k from the result A of its insertion
BudgetAfterDeletion(A, d, k) ==
  IF A.status = "OK" /\ A.is_new THEN PerformDeletion(A.S, d, k).budget ELSE memory_budget_

\* C12: the memory budget is exact over structural changes: what the insertion
\* of a key and the assignment of its value take from memory_budget_ the
\* deletion gives back, so that insert, set value, delete returns memory_budget_
\* to the value it had.  The insertion subtracts the growth of the table only
\* and the deletion adds the heap sizes of the key and of the value.
C12_BudgetRestoredByInsertThenDelete ==
  \A d \in Dbs, k \in Keys, v \in Vals :
    ~Has(prime[d], k)
      => BudgetAfterDeletion(ScopeEnd(AddOrUpdateInternal(Cur, d, k, v, 0, TRUE)), d, k)
           = memory_budget_

\* key k of database d is stored with a deadline
HasDeadline(d, k) == Has(prime[d], k) /\ EntryOf(prime[d], k).expire /\ expire[d][k] # NoExpire

\* the result R of a find on a key whose deadline has passed
FoundExpired(R, d, k) ==
  /\ R.status = "KEY_NOTFOUND"
  /\ ~Has(R.S.prime[d], k)
  /\ R.S.expire[d][k] = NoExpire
  /\ R.S.events.expired_keys = events_.expired_keys + 1

\* the result R of a find on a key whose deadline is ahead
FoundAlive(R, d, k) ==
  /\ R.status = "OK"
  /\ Has(R.S.prime[d], k)
  /\ EntryOf(R.S.prime[d], k) = EntryOf(prime[d], k)
  /\ R.S.expire[d][k] = expire[d][k]
  /\ R.S.events.expired_keys = events_.expired_keys

DeadlineOf(S, d, k) == IF S.expire[d][k] = NoExpire THEN NoExpire ELSE ExpireTime(S.expire[d][k])

\* the conditions under which an update of the deadline to abs_msec is skipped
SkipCondition(d, k, params, abs_msec) ==
  \/ "NX" \in params.opt /\ HasDeadline(d, k)
  \/ "XX" \in params.opt /\ ~HasDeadline(d, k)
  \/ "GT" \in params.opt /\ HasDeadline(d, k) /\ ExpireTime(expire[d][k]) >= abs_msec
  \/ "LT" \in params.opt /\ HasDeadline(d, k) /\ ExpireTime(expire[d][k]) <= abs_msec

Unchanged(R, d) == R.S.prime[d] = prime[d] /\ R.S.expire[d] = expire[d]

\* the result R of an update with a positive relative deadline within the maximum
UpdatedOrSkipped(R, d, k, params, abs_msec) ==
  IF SkipCondition(d, k, params, abs_msec)
  THEN R.status = "SKIPPED" /\ Unchanged(R, d)
  ELSE R.status = "OK" /\ Has(R.S.prime[d], k) /\ DeadlineOf(R.S, d, k) = abs_msec

Persisted(R, d, k) ==
  R.status = "OK" /\ Has(R.S.prime[d], k) /\ R.S.expire[d][k] = NoExpire
    /\ ~EntryOf(R.S.prime[d], k).expire

Deleted(R, d, k) == R.status = "OK" /\ ~Has(R.S.prime[d], k) /\ R.S.expire[d][k] = NoExpire

\* the contract of UpdateExpire on the result R; rel and abs are what Calculate
\* returns.  A negative absolute time is out of range whatever the relative
\* deadline is.
UpdateExpireContract(R, d, k, params, rel_msec, abs_msec) ==
  IF params.persist THEN Persisted(R, d, k)
  ELSE IF abs_msec < 0 \/ rel_msec > kMaxExpireDeadlineMs
       THEN R.status = "OUT_OF_RANGE" /\ Unchanged(R, d)
  ELSE IF rel_msec <= 0 THEN Deleted(R, d, k)
  ELSE UpdatedOrSkipped(R, d, k, params, abs_msec)

\* the contract as the claim words it: every non-positive relative deadline deletes the key
UpdateExpireContractAsStated(R, d, k, params, rel_msec, abs_msec) ==
  IF params.persist THEN Persisted(R, d, k)
  ELSE IF rel_msec > kMaxExpireDeadlineMs THEN R.status = "OUT_OF_RANGE" /\ Unchanged(R, d)
  ELSE IF rel_msec <= 0 THEN Deleted(R, d, k)
  ELSE UpdatedOrSkipped(R, d, k, params, abs_msec)

\* C14 (amended): UpdateExpire with a positive relative deadline within the
\* maximum returns SKIPPED and leaves the deadline as it is exactly when NX is
\* given and the key has a deadline, XX is given and it has none, GT is given
\* and the existing deadline is >= the new one, or LT is given and the existing
\* deadline is <= the new one; otherwise the deadline becomes the new absolute
\* time.  A relative deadline beyond the maximum or a negative absolute time
\* returns OUT_OF_RANGE with no change; otherwise a non-positive relative
\* deadline deletes the key; persist removes the deadline.
C14_UpdateExpireContract ==
  \A d \in Dbs, k \in Keys, params \in ExpireParamsSet :
    Has(prime[d], k)
      => UpdateExpireContract(UpdateExpire(Cur, d, k, ExpItValid(Cur, d, k), params), d, k,
                              params, Calculate(params, now)[1], Calculate(params, now)[2])

\* C14 as stated: every non-positive relative deadline deletes the key.
C14_NonPositiveDeadlineDeletes ==
  \A d \in Dbs, k \in Keys, params \in ExpireParamsSet :
    Has(prime[d], k)
      => UpdateExpireContractAsStated(UpdateExpire(Cur, d, k, ExpItValid(Cur, d, k), params),
                                      d, k, params, Calculate(params, now)[1],
                                      Calculate(params, now)[2])

\* a key was inserted and its deadline was set twice; the deadline it has is
\* one that an update within the maximum can fall below or meet
C14_Witness ==
  /\ now = 0
  /\ version_ = MaxVersion
  /\ entries_count_ = 1
  /\ \E d \in Dbs, k \in Keys : HasDeadline(d, k) /\ ExpireTime(expire[d][k]) = kMaxExpireDeadlineMs

\* the heap bytes of entry e
HeapBytes(e) == KeyMallocUsed(e.key) + ValMallocUsed(e.val)

\* the entries of database d that the step with result R evicted
EvictedByStep(R, d) == {x.e : x \in {y \in R.S.tr.evicted : y.d = d}}

\* the result R of a heartbeat step on database d with byte goal goal and limit hb
EvictionStepContract(R, d, goal, hb) ==
  /\ \A e \in EvictedByStep(R, d) :
       /\ ~e.sticky
       /\ HasAllocated(e)
       /\ e.key \notin trans_locks[d]
       /\ Has(prime[d], e.key) /\ ~Has(R.S.prime[d], e.key)
  /\ R.items = Cardinality(EvictedByStep(R, d))
  /\ KeysOf(prime[d]) \ KeysOf(R.S.prime[d]) = {e.key : e \in EvictedByStep(R, d)}
  /\ R.items <= hb
  /\ R.items > 0 => \E e \in EvictedByStep(R, d) : R.bytes - HeapBytes(e) < goal
  /\ ~cache_mode_ => R.items = 0 /\ R.S.prime = prime

DeadlineKeys(d) == {k \in Keys : expire[d][k] # NoExpire}

\* the result st of a sweep of database d: a locked key keeps its entry and its
\* deadline, and when every key with a deadline is locked nothing is counted
SweepSkipsLocked(st, d) ==
  /\ \A k \in trans_locks[d] :
       /\ st.S.expire[d][k] = expire[d][k]
       /\ Has(st.S.prime[d], k) = Has(prime[d], k)
       /\ Has(prime[d], k) => EntryOf(st.S.prime[d], k) = EntryOf(prime[d], k)
  /\ DeadlineKeys(d) \subseteq trans_locks[d] => st.traversed = 0 /\ st.deleted = 0
  /\ st.deleted <= st.traversed

\* C16: the incremental expiry sweep never deletes an entry whose key is
\* under a transaction lock and does not count it as visited, in any state
\* and for any count.
C16_SweepSkipsLockedKeys ==
  \A d \in Dbs, count \in 0..(3 * NumKeys) : SweepSkipsLocked(DeleteExpiredStep(Cur, d, count), d)

\* a sweep has deleted a key and has left a locked key whose deadline has
\* passed; another sweep visits nothing
C16_Witness ==
  /\ events_.expired_keys > 0
  /\ \E k \in trans_locks[0] : HasDeadline(0, k) /\ ExpireTime(expire[0][k]) <= now
  /\ DeleteExpiredStep(Cur, 0, 3 * NumKeys).traversed = 0

\* the entries of a prime table, whatever their positions
Contents(P) == {EntryAt(P, l) : l \in {m \in Buckets \X Slots : Occupied(EntryAt(P, m))}}

\* the orders in which OnCbFinishBlocking may meet up to two fetched items of database 0
BumpOrders ==
  {<<>>} \cup {<<<<HashCode(k), 0>>>> : k \in Keys}
         \cup {<<<<HashCode(p[1]), 0>>, <<HashCode(p[2]), 0>>>> :
                 p \in {q \in Keys \X Keys : q[1] # q[2]}}

\* the state R after the bumps of a callback's end: the entries are those of
\* before, the sticky entries are where they were, fetched_items_ is empty
OnlyPositionsChange(R) ==
  /\ \A d \in Dbs : Contents(R.prime[d]) = Contents(prime[d])
  /\ R.expire = expire
  /\ \A l \in Buckets \X Slots :
       (Occupied(EntryAt(prime[0], l)) /\ EntryAt(prime[0], l).sticky)
         => EntryAt(R.prime[0], l) = EntryAt(prime[0], l)
  /\ R.fetched = {}
  /\ ~R.tr.foreign

\* C17: for every bump at the end of a callback in cache mode
\* (OnCbFinishBlocking) the keys and values of the prime table are those of
\* before and only positions change; sticky keys are not moved; fetched_items_
\* is empty when OnCbFinishBlocking returns.  A bump out of the stash bucket
\* calls the change callbacks, and the callback of FlushSlotsFb deletes the
\* keys of the flushed slots, the bumped entry among them.
C17_BumpChangesPositionsOnly ==
  cache_mode_ =>
    \A items \in BumpOrders :
      OnlyPositionsChange(OnCbFinishBlockingLoop([Cur EXCEPT !.fetched = {}], items))

\* ---------------------------------------------------------------- C18
\* the step in which FlushSlotsFb ends: its traversal is complete and it
\* unregisters its callback
FlushSlotsCompletes == flush_slots.pc = "running" /\ flush_slots'.pc = "idle"

\* the keys of the flushed slots that database 0 holds after the step
RemainingOfSlots == {k \in Keys : KeySlot(k) \in flush_slots.slot_ids /\ Has(prime'[0], k)}

\* C18 as stated: when flush_slots(S) has completed, no key whose slot is in S
\* is in the prime table of database 0, whatever was inserted or updated
\* while the fiber ran.
C18_NoKeyOfSlotsRemains == [][FlushSlotsCompletes => RemainingOfSlots = {}]_vars

\* C18 amended: when flush_slots(S) has completed, every key of S that is in
\* the prime table of database 0 was inserted after flush_slots was called;
\* the keys of S stored at the call and not inserted again are gone.
C18_OnlyLaterInsertionsRemain ==
  [][FlushSlotsCompletes => RemainingOfSlots \subseteq flush_slots.added]_vars

\* the fiber is about to end, a key of its slots was in the table it has
\* traversed and deleted from, and a key inserted meanwhile is still there
C18_Witness ==
  /\ flush_slots.pc = "running"
  /\ flush_slots.cursor > NumBuckets
  /\ ~flush_slots.detached
  /\ \E k \in flush_slots.slot_ids : ~Has(prime[0], k)
  /\ \E k \in flush_slots.added : KeySlot(k) \in flush_slots.slot_ids /\ Has(prime[0], k)

\* ---------------------------------------------------------------- C19
InsideConsumeData == {f \in Fibers : flush_fiber[f].pc = "consume"}
WaitingToPush == {f \in Fibers : flush_fiber[f].pc = "wait"}

\* C19: when several fibers call FlushSerialized concurrently, the consumer
\* receives the chunks in strictly increasing flush-id order without gaps (the
\* chunk with id n is consumed only after the chunk with id n-1 has been
\* pushed) and so in the order their items were written, at most one fiber is
\* inside ConsumeData at any time, and a flush that produced zero bytes takes
\* no id.
C19_FlushesInIdOrder ==
  /\ \A i \in 1..Len(consumer_) : consumer_[i].id = i
  /\ \A i \in 1..Len(Flatten(consumer_)) : Flatten(consumer_)[i] = i
  /\ Cardinality(InsideConsumeData) <= 1
  /\ \A f \in InsideConsumeData :
       flush_fiber[f].id = last_pushed_id_ + 1 /\ Len(consumer_) = flush_fiber[f].id
  /\ InsideConsumeData = {} => Len(consumer_) = last_pushed_id_
  /\ \A i \in 1..Len(consumer_) : consumer_[i].data # <<>>
  /\ \A f \in WaitingToPush : flush_fiber[f].sfile # <<>>
  /\ rec_id_ - 1 = Len(consumer_) + Cardinality(WaitingToPush)

\* one fiber is inside ConsumeData with the second chunk, another waits with
\* the third, and a third fiber's flush of an empty serializer_ returned 0
C19_Witness ==
  \E f, g, h \in Fibers :
    /\ flush_fiber[f].pc = "consume" /\ flush_fiber[f].id = 2
    /\ flush_fiber[g].pc = "wait" /\ flush_fiber[g].id = 3
    /\ flush_fiber[h].pc = "idle" /\ flush_fiber[h].ret = 0
    /\ serializer_ = <<>>
    /\ rec_id_ = 4

\* ---------------------------------------------------------------- C20
\* the snapshot value of the key of journal entry e is not written after e
ValueNotAfter(s, e) ==
  \A i \in 1..Len(snap[s].stream) :
    (snap[s].stream[i][1] = e.d /\ snap[s].stream[i][2] = e.k) => i <= e.at

\* the value the key of e had when the snapshot started is written before e,
\* unless the key was deleted before its bucket was serialized
OriginalBefore(s, e) ==
  \A rec \in snap[s].start :
    (rec[1] = e.d /\ rec[2] = e.k /\ <<e.d, e.k>> \notin snap[s].missed)
      => \E i \in 1..e.at : snap[s].stream[i] = rec

JournalAfterSnapshotValue(s) ==
  \A j \in 1..Len(snap[s].journal) :
    /\ ValueNotAfter(s, snap[s].journal[j])
    /\ OriginalBefore(s, snap[s].journal[j])
    /\ ~snap[s].journal[j].mid

LsnRange(a, b) == [i \in 1..(b - a) |-> a + i - 1]

\* what the incremental snapshot wrote, without the cut
RecordsWritten == SelectSeq(incremental.out, LAMBDA x : x # FullSyncCut)
CutsWritten == SelectSeq(incremental.out, LAMBDA x : x = FullSyncCut)

\* C21: an incremental snapshot started at LSN L traverses no table; it
\* writes the journal entries L, L+1, ... in LSN order; when it has reached
\* the head of the journal it writes the full-sync cut and registers its
\* callback in one step, so that every record from L on is written exactly
\* once; when an entry was dropped from the buffer it reports an error and
\* writes no cut.
C21_IncrementalDeliversEachRecordOnce ==
  /\ \A s \in Snaps : snap[s].stream = <<>>
  /\ incremental.pc \in {"replay", "failed"} =>
       RecordsWritten = LsnRange(incremental.start, incremental.lsn)
  /\ incremental.pc = "pushing" =>
       RecordsWritten = LsnRange(incremental.start, incremental.lsn + 1)
  /\ incremental.pc = "streaming" =>
       /\ RecordsWritten = LsnRange(incremental.start, journal_buf.lsn)
       /\ Len(CutsWritten) = 1
       /\ incremental.out[incremental.lsn - incremental.start + 1] = FullSyncCut
  /\ incremental.pc # "streaming" => CutsWritten = <<>> /\ ~incremental.journal_cb_id_
  /\ (incremental.pc = "replay" /\ incremental.lsn < journal_buf.first) =>
       ~ENABLED SwitchIncrementalWrite

\* the replay has caught up after records were added while it ran, and a
\* record added after the cut came through the callback
C21_Witness ==
  /\ incremental.pc = "streaming"
  /\ incremental.start = 2
  /\ incremental.lsn = 4
  /\ journal_buf.lsn = 5
  /\ incremental.out = <<2, 3, FullSyncCut, 4>>

\* an entry was dropped from the buffer before it was replayed: the error
C21_WitnessDropped ==
  /\ incremental.pc = "failed"
  /\ incremental.lsn < journal_buf.first
  /\ incremental.out # <<>>

\* ---------------------------------------------------------------- C22
\* how often a call was made, and whether a call was made after another
Count(q, x) == Cardinality({i \in DOMAIN q : q[i] = x})
After(q, x, y) == \E i, j \in DOMAIN q : i < j /\ q[i] = x /\ q[j] = y

\* what C22 says of the callbacks and of FinalizeJournalStream
UnregistersOnce(s) ==
  LET q == snap[s].done
  IN /\ snap[s].pc = "done" =>
          /\ Count(q, "UnregisterOnChange") = 1
          /\ \A i \in DOMAIN change_cb_ : change_cb_[i].snap # s
          /\ Count(q, "UnregisterOnMoved") = (IF snap[s].pit THEN 0 ELSE 1)
          /\ ~snap[s].moved_cb_id_
     /\ snap[s].pc = "running" =>
          /\ Count(q, "UnregisterOnChange") = 0
          /\ Count(q, "UnregisterOnMoved") = 0
          /\ snap[s].moved_cb_id_ = ~snap[s].pit
     /\ Count(q, "journal.UnregisterOnChange") <= 1
     /\ snap[s].journal_hook = (snap[s].stream_journal /\ Count(q, "journal.UnregisterOnChange") = 0)
     /\ Count(q, "journal.UnregisterOnChange") = 1 => snap[s].pc = "done"
     /\ (snap[s].fin.calls >= 1 /\ snap[s].fin.pc = "none") =>
          Count(q, "journal.UnregisterOnChange") = 1
     /\ Count(q, "SendJournalOffset") <= 1
     /\ Count(q, "SendJournalOffset") = 1 =>
          /\ q[1] = "FinalizeJournalStream(false)" \/ After(q, "FinalizeJournalStream(false)", "SendJournalOffset")
          /\ ~After(q, "FinalizeJournalStream(true)", "SendJournalOffset")
             \/ After(q, "FinalizeJournalStream(false)", "FinalizeJournalStream(true)")

\* C22: a cancelled snapshot still unregisters its change callback (and its
\* moved callback when one was registered) but skips the final flush: once the
\* context has stopped running the fiber writes no full-sync cut;
\* FinalizeJournalStream(cancel = true) joins the fiber and unregisters the
\* journal callback exactly once and writes no journal offset, and a second
\* call unregisters nothing.
C22_CancelledSnapshotSkipsFinalFlush ==
  \A s \in Snaps :
    /\ UnregistersOnce(s)
    /\ ~After(snap[s].done, "cancel", "SendFullSyncCut")

\* the same with the cut left out only by a fiber that returned at a check
C22_ReturnAtCheckWritesNoCut ==
  \A s \in Snaps :
    /\ UnregistersOnce(s)
    /\ Count(snap[s].done, "return") = 1 =>
          /\ Count(snap[s].done, "SendFullSyncCut") = 0
          /\ After(snap[s].done, "cancel", "return")
    /\ After(snap[s].done, "cancel", "SendFullSyncCut") =>
          snap[s].pc = "done" /\ Count(snap[s].done, "return") = 0

\* a snapshot that was cancelled in the middle of its traversal, has ended and
\* was finalized twice with cancel
C22_Witness ==
  \E s \in Snaps :
    /\ snap[s].done = <<"cancel", "return", "UnregisterOnChange", "UnregisterOnMoved",
                         "FinalizeJournalStream(true)", "journal.UnregisterOnChange",
                         "FinalizeJournalStream(true)">>
    /\ snap[s].fin.calls = 2 /\ snap[s].fin.pc = "none"
    /\ snap[s].stream # <<>>

\* ---------------------------------------------------------------- C23
\* a snapshot that is not point-in-time has ended its traversal
TraversedNotPointInTime(s) ==
  /\ snap[s].pc = "done"
  /\ snap[s].stream_journal /\ ~snap[s].pit
  /\ Count(snap[s].done, "return") = 0

\* the stream of s holds a value of key k of database d
KeyInStream(s, d, k) == \E i \in 1..Len(snap[s].stream) : snap[s].stream[i][1] = d /\ snap[s].stream[i][2] = k

\* C23: in non-point-in-time mode an item that is moved behind the traversal
\* from a place ahead of it is serialized by OnMoved, in every database, so
\* that no item present for the whole traversal is missing from the stream.
C23_NoItemMissedByRelocation ==
  \A s \in Snaps : TraversedNotPointInTime(s) =>
    \A r \in Surviving(s) : Has(prime[r[1]], r[2]) => KeyInStream(s, r[1], r[2])

\* the same of the items of database 0 alone
C23_NoItemOfDatabaseZeroMissed ==
  \A s \in Snaps : TraversedNotPointInTime(s) =>
    \A r \in Surviving(s) : (r[1] = 0 /\ Has(prime[r[1]], r[2])) => KeyInStream(s, r[1], r[2])

\* OnMoved has serialized a bucket of database 0: the stream holds a key twice
C23_MovedSerialized ==
  \E s \in Snaps :
    /\ TraversedNotPointInTime(s)
    /\ \E i, j \in 1..Len(snap[s].stream) :
         i < j /\ snap[s].stream[i][1] = 0 /\ snap[s].stream[j][1] = 0
               /\ snap[s].stream[i][2] = snap[s].stream[j][2]

\* ---------------------------------------------------------------- C24
\* every update has completed
UpdatesCompleted == \A c \in Updaters : updater[c].pc = "idle"

\* the subscribers of a channel by what the connections hold
SubscribersOf(channel) ==
  {<<c, <<>>>> : c \in {x \in Conns : channel \in subscribe_info[x].channels}}
  \cup {<<c, p>> : <<c, p>> \in {x \in Conns \X PatternNames :
                                   x[2] \in subscribe_info[x[1]].patterns
                                   /\ GlobMatches(x[2], channel)}}

\* the keys some connection holds
KeysHeld(pattern) ==
  UNION {IF pattern THEN subscribe_info[c].patterns ELSE subscribe_info[c].channels : c \in Conns}

\* C24: after the updates have completed FetchSubscribers(channel) returns
\* exactly the connections subscribed to the channel and those subscribed to
\* a pattern that matches it, each once, in the order of their threads, on
\* the newest store and on the store of every thread; a connection that
\* unsubscribed is not among them, and no map holds a slot for a key that
\* no connection holds.
C24_FetchReturnsExactlySubscribers ==
  UpdatesCompleted =>
    /\ \A store \in {most_recent} \cup {tl_store[t] : t \in Threads}, channel \in ChannelNames :
         LET res == FetchSubscribers(cs_heap, store, channel)
         IN /\ {<<res[i].conn, res[i].pattern>> : i \in DOMAIN res} = SubscribersOf(channel)
            /\ Len(res) = Cardinality(SubscribersOf(channel))
            /\ \A i, j \in DOMAIN res : i < j => res[i].thread <= res[j].thread
            /\ \A i \in DOMAIN res : res[i].thread = ThreadOf(res[i].conn)
    /\ \A pattern \in BOOLEAN :
         LET m == cs_heap[TargetOf(cs_heap, most_recent, pattern)]
         IN /\ {p[1] : p \in m.slots} = KeysHeld(pattern)
            /\ \A p \in m.slots : cs_heap[p[2]].subs # {}
            /\ Cardinality(m.slots) = Cardinality(KeysHeld(pattern))

\* two connections of different threads are subscribed to a channel, the one
\* with the higher thread first in the SubscribeMap, and an update has
\* replaced a SubscribeMap, which is deleted
C24_Witness ==
  /\ UpdatesCompleted
  /\ \E channel \in ChannelNames :
       /\ Len(FetchSubscribers(cs_heap, most_recent, channel)) = 2
       /\ FetchSubscribers(cs_heap, most_recent, channel)[1].conn >
            FetchSubscribers(cs_heap, most_recent, channel)[2].conn
  /\ \E x \in cs_freed : cs_heap[x].kind = "sub"

\* ---------------------------------------------------------------- C25
\* the objects a reader on thread t can come to from the store of the thread
ReachableFrom(t) ==
  LET st == cs_heap[tl_store[t]]
  IN {tl_store[t], st.channels_, st.patterns_}
     \cup {p[2] : p \in cs_heap[st.channels_].slots \cup cs_heap[st.patterns_].slots}

\* C25: under any interleaving of updaters and publishers no reader accesses
\* a ChannelStore, ChannelMap or SubscribeMap that has been deleted: neither
\* the objects a FetchSubscribers under way holds nor those a thread reaches
\* from its store are deleted; an updater deletes only after its broadcast
\* has refreshed every thread, so that it deletes no store twice, and one
\* updater at a time holds the mutex.
C25_NoReaderAccessesDeleted ==
  /\ \A t \in Threads :
       /\ publisher[t].held \cap cs_freed = {}
       /\ ReachableFrom(t) \cap cs_freed = {}
  /\ \A c \in Updaters :
       /\ (updater[c].pc = "locked") = (update_mu = c)
       /\ (updater[c].pc = "locked" \/ (updater[c].pc = "broadcast" /\ updater[c].copied))
            => updater[c].store \notin cs_freed

\* a publisher is inside FetchSubscribers on the store an updater has replaced
\* and will delete, and holds a SubscribeMap of the freelist
C25_Witness ==
  \E t \in Threads, c \in Conns :
    /\ publisher[t].pc = "fetching"
    /\ updater[c].pc = "broadcast"
    /\ updater[c].copied
    /\ updater[c].store \in publisher[t].held
    /\ updater[c].pending = {t}
    /\ cs_freed # {}

\* ---------------------------------------------------------------- C26
\* SendMessages on thread t has returned and its callbacks have run
Published(t) == publisher[t].pc = "idle" /\ publisher[t].calls > 0

\* C26 as stated: SendMessages returns the number of subscribers the messages
\* were sent to, the subscribers whose connection has expired left out; it
\* returns 0 with no subscriber and does not fail.
C26_ReturnsNumberMessaged ==
  \A t \in Threads : Published(t) =>
    /\ publisher[t].ret = publisher[t].sent
    /\ publisher[t].subs = <<>> => publisher[t].ret = 0

\* C26: SendMessages returns the number of subscribers FetchSubscribers
\* found, those whose connection expires before the messages are sent among
\* them: no message is sent to such a subscriber, and the count is the number
\* of subscribers messaged when no connection expired in between; it returns
\* 0 with no subscriber and does not fail.
C26_ReturnsNumberFetched ==
  \A t \in Threads :
    /\ publisher[t].pc = "dispatched" => publisher[t].ret = Len(publisher[t].subs)
    /\ Published(t) =>
         /\ publisher[t].ret = Len(publisher[t].subs)
         /\ publisher[t].ret >= 0
         /\ publisher[t].sent <= publisher[t].ret
         /\ ~publisher[t].closed => publisher[t].sent = publisher[t].ret
         /\ publisher[t].subs = <<>> => publisher[t].ret = 0 /\ publisher[t].sent = 0
         /\ publisher[t].sent = publisher[t].ret
              \/ \E i \in DOMAIN publisher[t].subs : ~conn_open[publisher[t].subs[i].conn]

\* a connection closed between FetchSubscribers and the callback of its thread
C26_Witness ==
  \E t \in Threads :
    /\ Published(t)
    /\ publisher[t].ret = 1
    /\ publisher[t].sent = 0
    /\ publisher[t].closed

\* ---------------------------------------------------------------- C27
\* the key is in the table and its deadline, if it has one, has not passed
Present(d, k) ==
  /\ Has(prime[d], k)
  /\ ~(EntryOf(prime[d], k).expire /\ expire[d][k] # NoExpire
         /\ now >= ExpireTime(expire[d][k]))

\* the outcome of SET k v with the options params in the current state
SetOutcome(d, k, v, params) == CallbackEnd(SetCmdSet(Cur, d, k, v, params))

\* the SET returned OK and the key holds v
Stored(R, d, k, v) ==
  /\ R.status = "OK"
  /\ Has(R.S.prime[d], k)
  /\ EntryOf(R.S.prime[d], k).val = v

\* the SET returned SKIPPED and left the value, the flag and the deadline alone
SkippedUnchanged(R, d, k) ==
  /\ R.status = "SKIPPED"
  /\ Has(R.S.prime[d], k)
  /\ EntryOf(R.S.prime[d], k) = EntryOf(prime[d], k)
  /\ R.S.expire[d][k] = expire[d][k]

\* the SET returned SKIPPED and there is no key
SkippedAbsent(R, d, k) ==
  /\ R.status = "SKIPPED"
  /\ ~Has(R.S.prime[d], k)

\* the key carries the deadline now + expire_after_ms
DeadlineSet(R, d, k, params) ==
  /\ EntryOf(R.S.prime[d], k).expire
  /\ ExpireTime(R.S.expire[d][k]) = now + params.expire_after_ms

\* C27: SET NX stores the value if and only if the key is absent and
\* otherwise returns SKIPPED with value and deadline unchanged; SET XX stores
\* the value if and only if the key is present and otherwise returns SKIPPED
\* and creates no key; SET XX with an expiry on a present key stores the
\* value and sets the deadline, and a read at or past a deadline misses.
C27_ConditionalSet ==
  \A d \in Dbs, k \in FewKeys :
    /\ \A v \in Vals, params \in SetParamsSet :
         LET R == SetOutcome(d, k, v, params)
         IN /\ (params.how = "NX" /\ Present(d, k)) => SkippedUnchanged(R, d, k)
            /\ (params.how = "NX" /\ ~Present(d, k)) => Stored(R, d, k, v)
            /\ (params.how = "XX" /\ Present(d, k)) => Stored(R, d, k, v)
            /\ (params.how = "XX" /\ ~Present(d, k)) => SkippedAbsent(R, d, k)
            /\ (params.how = "XX" /\ Present(d, k) /\ ~params.keep
                  /\ params.expire_after_ms # 0) => DeadlineSet(R, d, k, params)
    /\ (Has(prime[d], k) /\ ~Present(d, k)) => FindInternal(Cur, d, k).status = "KEY_NOTFOUND"

\* a key stored by SET NX and overwritten by SET XX with an expiry is past
\* its deadline beside a key that SET NX stored and that has none
C27_Witness ==
  \E d \in Dbs, k \in FewKeys, j \in FewKeys :
    /\ Has(prime[d], k)
    /\ ~Present(d, k)
    /\ EntryOf(prime[d], k).val = NumVals
    /\ Present(d, j)
    /\ ~EntryOf(prime[d], j).expire

\* ---------------------------------------------------------------- C28
\* the entries the running or the last MSET added to the journal of shard sh
NewEntries(sh) ==
  SubSeq(shard_journal[sh], mset_tx.base[sh] + 1, Len(shard_journal[sh]))

\* the callback of the hop has run on shard sh
HopDone(sh) ==
  /\ mset_tx.count > 0
  /\ sh \in UniqueShards(mset_tx.args)
  /\ sh \notin mset_tx.pending

\* the last value the pairs give to key k
RECURSIVE LastValue(_, _)
LastValue(pairs, k) ==
  IF pairs = <<>> THEN 0
  ELSE IF pairs[Len(pairs)][1] = k THEN pairs[Len(pairs)][2]
  ELSE LastValue(SubSeq(pairs, 1, Len(pairs) - 1), k)

\* C28: with a journal, every shard an MSET spans records one MSET entry with
\* the pairs of the shard only; if the loop of the shard stops early the entry
\* holds exactly the pairs that were stored, in their order, and a shard that
\* stored nothing records no entry.
C28_OneEntryPerShardOfStoredPairs ==
  \A sh \in Shards :
    LET args == GetShardArgs(mset_tx.args, sh)
        stored == mset_tx.ran[sh]
    IN /\ ~HopDone(sh) => NewEntries(sh) = <<>>
       /\ HopDone(sh) =>
            /\ Len(stored) <= Len(args)
            /\ stored = SubSeq(args, 1, Len(stored))
            /\ \A k \in MSetKeys : LastValue(stored, k) # 0 => shard_db[sh][k] = LastValue(stored, k)
            /\ (mset_tx.result = "OK") => stored = args
            /\ mset_tx.journal /\ stored # <<>> =>
                 /\ Len(NewEntries(sh)) = 1
                 /\ NewEntries(sh)[1].cmd = "MSET"
                 /\ NewEntries(sh)[1].args = stored
                 /\ \A i \in DOMAIN NewEntries(sh)[1].args :
                      ShardOf(NewEntries(sh)[1].args[i][1]) = sh
            /\ (~mset_tx.journal \/ stored = <<>>) => NewEntries(sh) = <<>>

\* an MSET over two shards with a journal: one shard stored all its pairs,
\* the loop of the other stopped after its first pair, and an earlier MSET
\* left an entry on a shard
C28_Witness ==
  \E sh \in Shards, other \in Shards :
    /\ mset_tx.journal
    /\ mset_tx.reply = "error"
    /\ HopDone(sh) /\ HopDone(other)
    /\ Len(mset_tx.ran[sh]) = 1
    /\ Len(GetShardArgs(mset_tx.args, sh)) = 2
    /\ mset_tx.ran[other] = GetShardArgs(mset_tx.args, other)
    /\ Len(NewEntries(other)) = 1
    /\ mset_tx.count = MaxMSets

\* ---------------------------------------------------------------- C29
RECURSIVE SumRuns(_)
SumRuns(a) == IF a = 0 THEN 0 ELSE upd_hist.runs[a] + SumRuns(a - 1)

RECURSIVE SumHeap(_)
SumHeap(k) == IF k = 0 THEN 0 ELSE upd_table.heap[k] + SumHeap(k - 1)

\* C29: the release effects of an acquisition run once, on Run() or on
\* destruction, and never after Cancel(); a move hands the obligation on: at
\* any time an acquisition is either released once, or cancelled, or held by
\* exactly one object in scope. Every release counts in events_.update, marks
\* the watchers dirty and drops the watch entry, and accounts the heap delta.
C29_ReleasedExactlyOnce ==
  /\ \A a \in Acquisitions :
       /\ upd_hist.runs[a] <= 1
       /\ a \in upd_hist.cancelled => upd_hist.runs[a] = 0
       /\ a < upd_hist.next =>
            upd_hist.runs[a] + Cardinality(Holders(a)) + Cardinality({a} \cap upd_hist.cancelled) = 1
       /\ a >= upd_hist.next => upd_hist.runs[a] = 0 /\ Holders(a) = {}
  /\ upd_table.update = SumRuns(MaxAcquired)
  /\ \A c \in upd_hist.due : watched_dirty[c]
  /\ \A c \in Conns, k \in UpdKeys : c \in upd_table.watched_keys[k] => ~watched_dirty[c]
  /\ upd_table.client_tracking_map_ \cap upd_table.pending_send_map_ = {}
  /\ (~upd_hist.overlap /\ upd_hist.cancelled = {} /\ \A a \in Acquisitions : Holders(a) = {})
       => upd_table.obj_memory_usage = SumHeap(NumUpdKeys)

\* an updater was moved into another object, the source left its scope, and
\* the target released once: the watcher is dirty, the invalidation queued,
\* the value's heap accounted; another acquisition was cancelled
C29_Witness ==
  /\ \A i \in UpdaterIds : ~updaters[i].scope
  /\ upd_hist.next > MaxAcquired
  /\ upd_hist.runs[1] = 1
  /\ upd_hist.cancelled = {MaxAcquired}
  /\ upd_table.update = 1
  /\ upd_table.obj_memory_usage > 0
  /\ upd_table.pending_send_map_ # {}
  /\ \E c \in Conns : watched_dirty[c]

\* ---------------------------------------------------------------- C30
\* the keys removed by expiry and by eviction, as the statistics count them
RemovedKeys == events_.expired_keys + events_.evicted_keys

RECURSIVE SentMessages(_)
SentMessages(n) == IF n = 0 THEN 0 ELSE Len(keyevent_sent[n].messages) + SentMessages(n - 1)

\* the keys in the buffers of the databases and the keys published
RecordedKeys == Len(expired_keys_events_[0]) + Len(expired_keys_events_[1])
PublishedKeys == SentMessages(Len(keyevent_sent))

\* C30: with keyspace notifications every key removed by expiry or by eviction,
\* at an insert or in the heartbeat, is in the buffer of its database or was
\* published once on __keyevent@<dbindex>__:expired by DeleteExpiredStep,
\* which clears the buffer; without notifications nothing is recorded.
\* PrimeEvictionPolicy::Evict deletes the key and records no event.
C30_EveryRemovalRecordedOnce ==
  /\ expired_keys_events_recording_ => RecordedKeys + PublishedKeys = RemovedKeys
  /\ ~expired_keys_events_recording_ => RecordedKeys = 0 /\ keyevent_sent = <<>>
  /\ \A i \in DOMAIN keyevent_sent : keyevent_sent[i].channel = KeyeventChannel(0)

\* the part of C30 that holds: a step that inserts no key records every key
\* it removes, DeleteExpiredStep leaves the buffer empty, and nothing is
\* recorded without notifications
C30_RemovalsOutsideInsertRecorded ==
  [][/\ (expired_keys_events_recording_ /\ TableSize(prime'[0]) <= TableSize(prime[0])
           /\ events_'.evicted_keys = events_.evicted_keys)
          => (RecordedKeys + PublishedKeys)' - (RecordedKeys + PublishedKeys)
               = events_'.expired_keys - events_.expired_keys
     /\ (expired_keys_events_recording_ /\ events_'.evicted_keys > events_.evicted_keys
           /\ TableSize(prime'[0]) < TableSize(prime[0]))
          => (RecordedKeys + PublishedKeys)' - (RecordedKeys + PublishedKeys)
               = RemovedKeys' - RemovedKeys
     /\ PublishedKeys' > PublishedKeys => expired_keys_events_'[0] = <<>>
     /\ ~expired_keys_events_recording_ => RecordedKeys' = 0 /\ keyevent_sent' = <<>>]_vars

\* an insert evicted a key with notifications on, and a sweep has published
\* the key of an expiry
C30_EvictedAtInsertUnrecorded ==
  /\ expired_keys_events_recording_
  /\ events_.evicted_keys > 0
  /\ RecordedKeys + PublishedKeys < RemovedKeys
  /\ PublishedKeys > 0

\* ---------------------------------------------------------------- C31
PendingSets == {s \in SetIds : dense_sets[s].st = "pending"}
ListedSets == {head_[i].ds : i \in DOMAIN head_}

\* the list holds exactly the pending sets, each once; a set is freed at most
\* once and only when all its buckets are cleared; a pending list is served
\* by a registered idle task
DeleterSafe ==
  /\ ListedSets = PendingSets
  /\ Len(head_) = Cardinality(PendingSets)
  /\ \A s \in SetIds :
       /\ dense_sets[s].frees <= 1
       /\ dense_sets[s].st = "freed" <=>  dense_sets[s].frees = 1
       /\ dense_sets[s].st = "freed" => dense_sets[s].cleared = dense_sets[s].buckets
  /\ head_ # <<>> => idle_tasks > 0

\* one step clears at most kClearStepSize buckets, of one set; the idle task
\* unregisters only when the list is empty
DeleterStep ==
  /\ \A s \in SetIds :
       dense_sets'[s].st = dense_sets[s].st /\ dense_sets[s].st = "pending"
         => dense_sets'[s].cleared - dense_sets[s].cleared \in 0..kClearStepSize
  /\ idle_tasks' < idle_tasks => head_ = <<>> /\ head_' = <<>>

\* C31 as stated: every dense set enqueued for asynchronous deletion is
\* eventually freed, provided the idle callback keeps being scheduled
C31_EveryEnqueuedSetFreed ==
  \A s \in SetIds : (dense_sets[s].st = "pending") ~> (dense_sets[s].st = "freed")

\* C31: a set is freed at most once and only when cleared completely, each idle
\* step clears a bounded chunk, the idle task unregisters only when the list
\* is empty, and, the idle callback being scheduled, every set in the list is
\* eventually freed once no further sets are enqueued in front of it
C31_EnqueuedSetsFreedOnce ==
  /\ []DeleterSafe
  /\ [][DeleterStep]_vars
  /\ \A s \in SetIds :
       (dense_sets[s].st = "pending" /\ ~deleting) ~> (dense_sets[s].st = "freed")

\* a set enqueued after the list had drained, while the earlier idle task was
\* still registered, has been cleared in several steps and freed
C31_Witness ==
  /\ idle_tasks = 2
  /\ head_ = <<>>
  /\ \E s \in SetIds : dense_sets[s].st = "freed" /\ dense_sets[s].buckets > kClearStepSize + kClearStepSizeDeletion

\* ---------------------------------------------------------------- C32
\* the versions of the callbacks FlushChangeToEarlierCallbacks invokes on
\* bucket b of database d, in the order of the calls
FlushedCallbacks(d, b, upper) ==
  LET log == FlushChangeToEarlierCallbacks(Cur, d, b, upper).tr.log
      IsCb(e) == e.t = "cb"
      calls == SelectSeq(log, IsCb)
  IN [i \in 1..Len(calls) |-> calls[i].v]

\* the versions of the registered callbacks strictly between lo and hi, in
\* the order of change_cb_
CallbacksBetween(lo, hi) ==
  LET Between(cb) == lo < cb.ver /\ cb.ver < hi
      cbs == SelectSeq(change_cb_, Between)
  IN [i \in 1..Len(cbs) |-> cbs[i].ver]

\* C32: FlushChangeToEarlierCallbacks with the version of a registered callback
\* as upper bound invokes exactly the callbacks whose version is strictly
\* between the version the bucket had at entry and the bound, each once, in
\* increasing order of version.
C32_FlushesCallbacksStrictlyBetween ==
  \A d \in Dbs, b \in Buckets, u \in DOMAIN change_cb_ :
    LET calls == FlushedCallbacks(d, b, change_cb_[u].ver)
    IN /\ calls = CallbacksBetween(bver[d][b], change_cb_[u].ver)
       /\ \A i, j \in DOMAIN calls : i < j => calls[i] < calls[j]

\* two callbacks are registered; with the later one as bound a bucket below
\* both is passed to the earlier callback only, and a bucket that carries the
\* version of the earlier callback is passed to none
C32_Witness ==
  /\ Len(change_cb_) = 2
  /\ \E d \in Dbs, b \in Buckets :
       /\ bver[d][b] < change_cb_[1].ver
       /\ FlushedCallbacks(d, b, change_cb_[2].ver) = <<change_cb_[1].ver>>
  /\ \E d \in Dbs, b \in Buckets :
       /\ bver[d][b] >= change_cb_[1].ver
       /\ bver[d][b] < change_cb_[2].ver
       /\ FlushedCallbacks(d, b, change_cb_[2].ver) = <<>>

\* ---------------------------------------------------------------- C33
MaxSweepCount == 21

\* C33 as stated: whenever the first phase visited an entry, the step goes on
\* if and only if at least a quarter of the entries it visited were deleted
C33_ContinuesAtQuarter ==
  \A count \in 0..MaxSweepCount :
    LET first == DeleteExpiredStepFirst(Cur, 0, count)
        R == DeleteExpiredStep(Cur, 0, count)
    IN first.traversed > 0 /\ count \div 3 < count
         => (first.deleted * 4 >= first.traversed <=> R.advanced > first.advanced)

\* C33: DeleteExpiredStep first advances the expire cursor count / 3 times; if
\* more than a quarter of the entries visited in that phase were deleted it
\* goes on until the cursor has advanced count times in all; otherwise it
\* stops after the first phase, and so it does when exactly a quarter was deleted.
C33_ContinuesAboveQuarter ==
  \A count \in 0..MaxSweepCount :
    LET first == DeleteExpiredStepFirst(Cur, 0, count)
        R == DeleteExpiredStep(Cur, 0, count)
    IN /\ first.advanced = count \div 3
       /\ first.deleted <= first.traversed /\ first.traversed <= first.advanced
       /\ IF first.deleted * 4 > first.traversed
          THEN /\ R.advanced = count
               /\ R.traversed >= first.traversed /\ R.deleted >= first.deleted
          ELSE /\ R.advanced = count \div 3
               /\ R.traversed = first.traversed /\ R.deleted = first.deleted
               /\ R.S.prime = first.S.prime /\ R.S.expire = first.S.expire
               /\ R.S.cursor = first.S.cursor

\* a first phase that visits four entries and deletes one of them ends the
\* step, where an entry that stays is counted at every visit of its position
C33_Witness ==
  /\ \E count \in 0..MaxSweepCount :
       /\ DeleteExpiredStepFirst(Cur, 0, count).traversed = 4
       /\ DeleteExpiredStepFirst(Cur, 0, count).deleted = 1
       /\ DeleteExpiredStep(Cur, 0, count).advanced = count \div 3
  /\ \E k \in Keys : expire[0][k] # NoExpire /\ ExpireTime(expire[0][k]) <= now

\* ---------------------------------------------------------------- C34
\* the entries enqueued so far
Enqueued == 1..(next_entry - 1)
\* the entries the calls in progress hold
HeldEntries == {push_fiber[f].entry : f \in {g \in PushFibers : push_fiber[g].pc = "await"}}

\* every enqueued entry is in the list once, held by one call, or saved: an
\* entry that is handed to SaveEntry has not been saved before
DelayedOnce ==
  /\ \A i, j \in DOMAIN delayed_entries_ : i < j => delayed_entries_[i] < delayed_entries_[j]
  /\ saved \subseteq Enqueued
  /\ \A e \in Enqueued :
       Cardinality({1 : i \in {s \in saved : s = e}}
                     \cup {2 : i \in {j \in DOMAIN delayed_entries_ : delayed_entries_[j] = e}}
                     \cup {2 + f : f \in {g \in PushFibers :
                                           push_fiber[g].pc = "await" /\ push_fiber[g].entry = e}})
         = 1

\* a call that has left its loop found the list empty: it is empty still
\* unless an entry was enqueued since the call began
DrainedAtReturn ==
  \A f \in PushFibers :
    push_fiber[f].pc = "last" /\ ~push_fiber[f].added => delayed_entries_ = <<>>

\* of two entries a call takes one after the other the second is the earlier
\* enqueued, unless it was enqueued after the call began
TakenLatestFirst ==
  \A f \in PushFibers :
    push_fiber[f].pc = "await" /\ push_fiber[f].prev # 0
      => push_fiber[f].entry < push_fiber[f].prev \/ push_fiber[f].added

\* a call takes the last entry of the list
TakesBack ==
  \A f \in PushFibers :
    push_fiber'[f].pc = "await" /\ push_fiber'[f].entry # push_fiber[f].entry
      => /\ delayed_entries_ # <<>>
         /\ push_fiber'[f].entry = delayed_entries_[Len(delayed_entries_)]
         /\ \A i \in DOMAIN delayed_entries_ : delayed_entries_[i] <= push_fiber'[f].entry
         /\ delayed_entries_' = SubSeq(delayed_entries_, 1, Len(delayed_entries_) - 1)

\* PushSerialized(false) below both thresholds returns false and changes
\* nothing; any other call flushes the serializer
PushSerializedThreshold ==
  \A f \in PushFibers :
    (push_fiber[f].pc = "idle" /\ push_fiber'[f] # push_fiber[f])
      => IF serialized_len < kMinBlobSize /\ Len(delayed_entries_) < kDelayedEntries
         THEN \/ /\ push_fiber'[f].pc = "idle" /\ push_fiber'[f].ret = "false"
                 /\ UNCHANGED <<serialized_len, delayed_entries_, saved>>
              \/ push_fiber'[f].force /\ push_fiber'[f].pc = "flush" /\ serialized_len' = 0
         ELSE push_fiber'[f].pc = "flush" /\ serialized_len' = 0

\* C34 as stated: one call serializes the entries it takes in the order in
\* which they were enqueued
C34_TakenInEnqueueOrder ==
  \A f \in PushFibers :
    push_fiber[f].pc = "await" /\ push_fiber[f].prev # 0
      => push_fiber[f].prev < push_fiber[f].entry

\* C34: PushSerialized that goes on takes the delayed entries from the back of
\* the list until the list is empty, awaits the read of each and saves it, so
\* the entries are saved latest enqueued first, each once; the list is empty
\* when the call returns unless an entry was enqueued meanwhile; and
\* PushSerialized(false) does nothing while fewer than 8 KB are buffered and
\* fewer than 32 entries are delayed.
C34_DrainsLatestFirst ==
  /\ [](DelayedOnce /\ DrainedAtReturn /\ TakenLatestFirst)
  /\ [][PushSerializedThreshold /\ TakesBack]_vars

\* a call without force has gone on at 32 delayed entries with nothing
\* buffered, has taken and saved them all and has left the list empty
C34_Witness ==
  \E f \in PushFibers :
    /\ push_fiber[f].pc = "last" /\ ~push_fiber[f].force /\ ~push_fiber[f].added
    /\ push_fiber[f].serialized = kDelayedEntries * EntryBytes
    /\ saved = 1..kDelayedEntries
    /\ delayed_entries_ = <<>>

\* ---------------------------------------------------------------- C35
\* expiry is off: the slice belongs to a replica, expiry is not allowed, or
\* the shard lock fails the exclusive check
ExpiryOff == is_replica \/ ~expire_allowed_ \/ shard_lock

\* the result R of a find that leaves key k of database d in place
FoundInPlace(R, d, k) ==
  /\ R.status = "OK"
  /\ R.S.prime[d] = prime[d]
  /\ R.S.expire[d] = expire[d]
  /\ R.S.events.expired_keys = events_.expired_keys

\* C35: on a replica, with expiry not allowed, or while the shard lock fails
\* the exclusive check, ExpireIfNeeded returns the entry as it is even if its
\* deadline has passed, the finds return the entry, and no operation counts
\* an expired key.
C35_NoLazyExpiryWhenOff ==
  /\ [](ExpiryOff =>
          \A d \in Dbs, k \in Keys :
            HasDeadline(d, k) =>
              /\ ExpireIfNeeded(Cur, d, k) = Cur
              /\ FoundInPlace(FindInternal(Cur, d, k), d, k)
              /\ FoundInPlace(FindMutableInternal(Cur, d, k), d, k))
  /\ [][ExpiryOff =>
          /\ events_'.expired_keys = events_.expired_keys
          /\ \A d \in Dbs, k \in Keys : HasDeadline(d, k) => Has(prime'[d], k)]_vars

\* on a master with expiry allowed a find has expired a key, and while the
\* shard lock is held another key stays although its deadline has passed
C35_Witness ==
  /\ shard_lock /\ ~is_replica /\ expire_allowed_
  /\ events_.expired_keys > 0
  /\ \E k \in Keys :
       /\ HasDeadline(0, k) /\ ExpireTime(expire[0][k]) <= now
       /\ FindInternal(Cur, 0, k).status = "OK"

\* ---------------------------------------------------------------- C36
\* key k of database d is found, and the change callbacks PreUpdateBlocking
\* calls on its bucket delete it
TargetDeleted(d, k) ==
  /\ FindInternal(Cur, d, k).status = "OK"
  /\ ~Has(PreUpdateBlocking(FindInternal(Cur, d, k).S, d, k).prime[d], k)

\* the result R refers to a fresh entry of key k
FreshEntry(R, d, k) ==
  /\ R.status = "OK" /\ R.is_new
  /\ Has(R.S.prime[d], k)
  /\ EntryOf(R.S.prime[d], k) = NewEntry(k)
  /\ R.S.tr.upd.live /\ R.S.tr.upd.d = d /\ R.S.tr.upd.k = k
  /\ R.S.tr.upd.orig_heap_size = 0

\* C36: when a change callback called by FindMutable or AddOrFind deletes the
\* entry that was found, FindMutable returns KEY_NOTFOUND without an updater,
\* and AddOrFind inserts a fresh entry, reports is_new and hands out an
\* updater of the fresh entry.
C36_DeletedTargetNotReturned ==
  \A d \in Dbs, k \in Keys :
    TargetDeleted(d, k)
      => /\ FindMutableInternal(Cur, d, k).status = "KEY_NOTFOUND"
         /\ ~FindMutableInternal(Cur, d, k).S.tr.upd.live
         /\ ~Has(FindMutableInternal(Cur, d, k).S.prime[d], k)
         /\ FreshEntry(AddOrFindInternal(Cur, d, k), d, k)

\* FlushSlotsFb runs and has not reached the bucket of a key of its slots
\* that holds a value: a find for update on the key has its callback delete it
C36_Witness ==
  /\ flush_slots.pc = "running"
  /\ \E k \in Keys :
       /\ TargetDeleted(0, k)
       /\ EntryOf(prime[0], k).val # 0
       /\ AddOrFindInternal(Cur, 0, k).is_new

\* ---------------------------------------------------------------- C37
\* the fibers that hold the latch
LatchHolders == {f \in LatchFibers : latch_fiber[f].pc \in {"dispatch", "serialize"}}

\* the counter of the latch is the number of its holders; a dispatch has
\* invoked the callbacks of the list up to its position, and none that was
\* registered after it began
LatchSafe ==
  /\ serialization_latch_ = Cardinality(LatchHolders)
  /\ \A f \in LatchFibers :
       latch_fiber[f].pc = "dispatch" =>
         /\ latch_fiber[f].invoked =
              [i \in 1..(latch_fiber[f].pos - 1) |-> change_cb_[i].ver]
         /\ latch_fiber[f].pos <= latch_fiber[f].limit + 1
         /\ latch_fiber[f].limit <= Len(change_cb_)
         /\ \A i \in DOMAIN latch_fiber[f].invoked :
              latch_fiber[f].invoked[i] < latch_fiber[f].since

\* a callback leaves the list only at a counter of zero; taking the latch is
\* one step that adds one to the counter, whatever its value
LatchStep ==
  /\ (\E i \in DOMAIN change_cb_ : \A j \in DOMAIN change_cb_' : change_cb_'[j] # change_cb_[i])
       => serialization_latch_ = 0 /\ LatchHolders = {}
  /\ \A f \in LatchFibers :
       (f \notin LatchHolders /\ latch_fiber'[f].pc \in {"dispatch", "serialize"})
         => serialization_latch_' = serialization_latch_ + 1

\* C37: UnregisterOnChange removes a callback only when the counter of the
\* serialization latch is zero, that is while no dispatch of the change
\* callbacks and no bucket serialization is in progress; taking the latch
\* adds one to the counter and does not wait; a dispatch invokes the
\* callbacks that were registered when it began, and none registered later.
C37_UnregisterWaitsForLatch ==
  /\ []LatchSafe
  /\ [][LatchStep]_vars

\* a dispatch has invoked the callback that was registered when it began and
\* is over its limit although a second callback has been registered since;
\* another fiber took the latch while it was held, and a third waits to
\* unregister
C37_Witness ==
  \E f, g, h \in LatchFibers :
    /\ latch_fiber[f].pc = "dispatch"
    /\ latch_fiber[f].limit = 1 /\ latch_fiber[f].pos = 2
    /\ Len(change_cb_) = 2
    /\ latch_fiber[g].pc = "serialize"
    /\ serialization_latch_ = 2
    /\ latch_fiber[h].pc = "wait"

\* ---------------------------------------------------------------- C38
\* key k of database d is stored with a deadline that has passed
DeadlinePassed(d, k) == HasDeadline(d, k) /\ ExpireTime(expire[d][k]) <= now

\* the result R of a find that expired key k of database d
FoundExpiredKey(R, d, k) == R.status = "KEY_NOTFOUND" /\ ~Has(R.S.prime[d], k)

\* C38: on a master with expiry allowed, a find with an expected type on a
\* key whose deadline has passed returns KEY_NOTFOUND and deletes the key,
\* whatever the type of the stored value: the key is never reported as
\* WRONG_TYPE and never survives the lookup
C38_ExpiredKeyNeverWrongType ==
  (~is_replica /\ expire_allowed_ /\ ~shard_lock) =>
    \A d \in Dbs, k \in Keys, t \in ObjTypes :
      DeadlinePassed(d, k) => FoundExpiredKey(FindInternalTyped(Cur, d, k, t), d, k)

\* ---------------------------------------------------------------- C39
\* the increment that the last command asked for, as a number
IncrAsked == IF incr_reply.cmd = "DECRBY" THEN -incr_reply.arg ELSE incr_reply.arg

\* the last command failed with status st and left the value as it was
IncrRefused(st) == incr_reply.status = st /\ incr_value = incr_reply.prev

\* the last command returned n and stored it as the value of the key
IncrStored(n) ==
  /\ incr_reply.status = "OK"
  /\ incr_reply.value = n
  /\ incr_value = IntString(n)

\* what the statement says of a command on the value prev
IncrByAsStated ==
  /\ incr_reply.prev.t = "int" =>
       IF incr_reply.prev.n + IncrAsked \in Int64
       THEN IncrStored(incr_reply.prev.n + IncrAsked)
       ELSE IncrRefused("OUT_OF_RANGE")
  /\ incr_reply.prev.t = "str" => IncrRefused("INVALID_VALUE")
  /\ incr_reply.prev.t = "list" => IncrRefused("WRONG_TYPE")
  /\ (incr_reply.prev.t = "none" /\ incr_reply.skip_on_missing) => IncrRefused("KEY_NOTFOUND")
  /\ (incr_reply.prev.t = "none" /\ ~incr_reply.skip_on_missing /\ ~incr_reply.no_memory) =>
       IncrStored(IncrAsked)

\* the last command is a DECRBY of INT64_MIN
DecrByMin == incr_reply.cmd = "DECRBY" /\ incr_reply.arg = LLONG_MIN

\* C39 as stated: INCRBY / DECRBY on an integer string returns prev + incr and
\* stores it exactly when the sum fits in a signed 64-bit integer and returns
\* OUT_OF_RANGE without change otherwise; on a non-integer string it returns
\* INVALID_VALUE, on a non-string WRONG_TYPE; on a missing key it creates the
\* key with value incr (while there is memory), or returns KEY_NOTFOUND when
\* skip_on_missing is set
C39_IncrByExactWhenSumFits == incr_reply.cmd # "none" => IncrByAsStated

\* C39 amended: the statement holds for every INCRBY and for every DECRBY of a
\* value other than INT64_MIN; a DECRBY of INT64_MIN is answered with the
\* overflow error whatever the key holds, also when prev - val fits, when the
\* value is no integer and when the key is missing, and changes nothing; a
\* command that has to create the key without memory returns OUT_OF_MEMORY
C39_IncrByExactButDecrByMin ==
  /\ (incr_reply.cmd # "none" /\ ~DecrByMin) => IncrByAsStated
  /\ DecrByMin => IncrRefused("OUT_OF_RANGE")
  /\ (incr_reply.cmd # "none" /\ ~DecrByMin /\ incr_reply.prev.t = "none"
      /\ ~incr_reply.skip_on_missing /\ incr_reply.no_memory) => IncrRefused("OUT_OF_MEMORY")

\* a DECRBY of INT64_MIN on a negative integer was refused although the
\* difference fits
C39_Witness ==
  /\ DecrByMin
  /\ incr_reply.prev.t = "int" /\ incr_reply.prev.n < 0
  /\ incr_reply.prev.n + IncrAsked \in Int64
  /\ IncrRefused("OUT_OF_RANGE")

\* ---------------------------------------------------------------- C40
\* the members named by the call of the step
SpanMembers == {set_reply'.span[i] : i \in DOMAIN set_reply'.span}

\* the call of the step is to update the TTL of the members it finds
TtlToUpdate ==
  /\ set_reply'.ttl_sec # UINT32_MAX
  /\ ~set_reply'.keepttl
  /\ ~legacy_saddex_keepttl

\* a step of AddMany: it returns the number of members of the span that were
\* not present, adds exactly those, moves the TTL of a member it found to
\* now + ttl when it is to update it, and leaves the member alone otherwise
AddManyStep ==
  set_reply'.op = "AddMany" =>
    /\ set_reply'.res = Cardinality({m \in SpanMembers : ~set_members[m].present})
    /\ \A m \in Members :
         set_members'[m].present = (set_members[m].present \/ m \in SpanMembers)
    /\ \A m \in Members :
         set_members[m].present =>
           IF m \in SpanMembers /\ TtlToUpdate
           THEN /\ set_members'[m].has_ttl
                /\ set_members'[m].at = set_time + set_reply'.ttl_sec
           ELSE set_members'[m] = set_members[m]

\* a step of Add on a member that is present returns false and changes nothing
AddExistingStep ==
  (set_reply'.op = "Add" /\ \E m \in SpanMembers : set_members[m].present) =>
    /\ set_reply'.res = 0
    /\ set_members' = set_members

\* C40: StringSet::AddMany returns the number of members that were not already
\* present and adds exactly those; the TTL of a member already present is
\* updated to now + ttl only when a TTL is supplied, keepttl is not requested
\* and legacy_saddex_keepttl is false, and is left unchanged otherwise, always
\* so on the SADD path where no TTL is supplied; StringSet::Add on an existing
\* member returns false and changes nothing
C40_AddManyCountsNewAndKeepsTtl == [][AddManyStep /\ AddExistingStep]_vars

\* an AddMany with a TTL found all its members present and moved the TTL of one
C40_Witness ==
  /\ set_reply.op = "AddMany"
  /\ set_reply.ttl_sec # UINT32_MAX /\ ~set_reply.keepttl /\ ~legacy_saddex_keepttl
  /\ set_reply.res = 0
  /\ set_reply.updated # {}
  /\ \E m \in set_reply.updated : set_members[m].at = set_time + set_reply.ttl_sec

====
